---------------------------- MODULE Spec2Model ----------------------------
(***************************************************************************)
(* A model of jackpoint: the bridge between a terminal session and a       *)
(* Matrix room.                                                            *)
(*                                                                         *)
(*   ListenerSpec  the inbound listener (MatrixListener): the Room.timeline*)
(*                 handler with its filters, the bounded dedup set, the    *)
(*                 room -> session reverse index and the tmux pane writes. *)
(*   CoordinatorsSpec  two coordinators, each with its listener, sharing   *)
(*                 the account and the store.                              *)
(*   NotifierSpec  the outbound notifier: getClient, getSessionRoom,       *)
(*                 sendNotification and setTyping as asynchronous calls    *)
(*                 that interleave at their awaits, the session store and  *)
(*                 the homeserver.                                         *)
(*   HookSpec      one hook handler (handleHookEvent) and the notifier's   *)
(*                 exported calls, for every hook payload and type.        *)
(*   RelaySpec     the event relay (IPCServer) and the hook-ping           *)
(*                 processes that connect to it.                           *)
(*   KeySpec       getSessionKey as a function of host, pane and cwd.      *)
(*   MainSpec      main: the wrapped program, the forwarded signals and    *)
(*                 the exit paths with their cleanup.                      *)
(*   QuestionSpec  the text of a question notification.                    *)
(*   DeliverySpec  one listener with the periodic refresh of its index,    *)
(*                 pane writes that may fail, and stop().                  *)
(*   TypingSpec    the notifications of two coordinators, each in its own  *)
(*                 pane, with the room each text was sent to.              *)
(*   StartupSpec   main from the relay's start to the spawn, and the hook  *)
(*                 events of the wrapped program reaching handleHookEvent. *)
(*                                                                         *)
(* Strings that the code splits on ":" (session keys, tmux targets) are    *)
(* modelled as the sequence of their ":"-separated parts, so that          *)
(* split(":") and join(":") are what they are in the code.  JavaScript's   *)
(* null / undefined is the empty sequence for such strings and the string  *)
(* "null" for plain identifiers.                                           *)
(***************************************************************************)
EXTENDS Integers, Sequences, FiniteSets, TLC

VARIABLES
    sessionFile,      \* ~/.jackpoint/session.json
    coordinators,     \* the listeners whose coordinator process runs
    myTmuxTarget,     \* MatrixListener.myTmuxTarget, per listener
    client,           \* MatrixListener.client is set (start() got that far)
    session,          \* MatrixListener.session, loaded by start()
    syncReady,        \* MatrixListener.syncReady
    roomToSession,    \* MatrixListener.roomToSession
    processedEvents,  \* MatrixListener.processedEvents, in insertion order
    tmuxWrites,       \* history: sendToTmux calls per listener and event id
    paneWrites,       \* history: every sendToTmux call and the delivery it came from
    since,            \* history: ids added to processedEvents after an id was,
                      \*          counted up to DedupCapacity
    lastEvent,        \* history: the last Room.timeline delivery and its outcome
    delivered,        \* history: number of Room.timeline deliveries so far
    life,             \* per coordinator: what start() returned, whether the wrapped
                      \* program was spawned, whether cleanup() ran and the
                      \* stopClient() calls it made
    validTokens,      \* homeserver: the access tokens it accepts
    joinedRooms,      \* homeserver: the rooms the bot account is joined to
    createdRooms,     \* homeserver: number of rooms created so far
    logins,           \* homeserver: number of password logins so far
    task,             \* the notifier calls in flight, one per hook handler
    notified,         \* history: number of hooks handled and notifier calls started
    lastCall,         \* history: the last hook handled or setTyping call made
    ipc,              \* IPCServer: this.server is set, the endpoint is listening
    socketFile,       \* the socket file /tmp/claude-matrix-<id>.sock exists
    stops,            \* history: number of IPCServer.stop() calls so far
    ping,             \* the hook-ping processes
    conn,             \* the relay's side of each hook-ping's connection
    emitted,          \* history: 'hook' events emitted per connection
    keyCalls,         \* history: the getSessionKey() calls made and their results
    proc,             \* the coordinator process (main) and the program it wraps
    rendered,         \* the last question notification: its input, text and typing
    fresh,            \* history: refreshRoomMapping() has run since the store's rooms
                      \*          last changed
    writeFailures,    \* history: the sendToTmux calls that failed
    sentRoom          \* history: the room each handler's last text was sent to

lvars == <<myTmuxTarget, client, session, syncReady, roomToSession,
           processedEvents, tmuxWrites, paneWrites, since, lastEvent, delivered,
           life>>

\* the homeserver and the outbound notifier
nvars == <<validTokens, joinedRooms, createdRooms, logins, task, notified, lastCall>>

\* the event relay and its hook clients
rvars == <<ipc, socketFile, stops, ping, conn, emitted>>

\* the session keys handed out, in call order, the coordinator process and
\* the text of the last question
\* histories of the listener's refreshes and pane writes
hvars == <<fresh, writeFailures, sentRoom>>

mvars == <<keyCalls, proc, rendered, hvars>>

vars == <<sessionFile, coordinators, lvars, nvars, rvars, mvars>>

----------------------------------------------------------------------------
(* Values *)

Null == "null"

\* null for a string modelled as its ":"-separated parts
NoTarget == << >>

\* The size limit of processedEvents. The source's limit is 1000; the model
\* scales it down so that the eviction of an id and its redelivery happen
\* within a few deliveries. Nothing else in the handler depends on its value.
DedupCapacity == 2

\* Room.timeline deliveries in one behaviour
MaxDeliveries == 4

Listeners == {"L1", "L2"}

BotUser == "@bot:hs"
HumanUser == "@human:hs"
Users == {BotUser, HumanUser}

\* Session keys as getSessionKey builds them: hostname:session:window.pane
\* inside tmux, hostname:cwd outside.
KeyPane1 == <<"host", "work", "0.1">>
KeyPane2 == <<"host", "work", "0.2">>
KeyDir == <<"host", "/home/u/proj">>
SessionKeys == {KeyPane1, KeyPane2, KeyDir}

\* What getTmuxPane() returns in those panes, and null outside tmux
Pane1 == <<"work", "0.1">>
Pane2 == <<"work", "0.2">>
Panes == {Pane1, Pane2}

\* Room ids: one per session key, and a room of the account no session maps to
Rooms == {"!r1", "!r2", "!r3", "!r4"}

RoomOfKey(k) ==
    CASE k = KeyPane1 -> "!r1"
      [] k = KeyPane2 -> "!r2"
      [] k = KeyDir -> "!r3"

\* event.getType() with content.msgtype and content.body
TextKind == [type |-> "m.room.message", msgtype |-> "m.text", body |-> "yes"]
ImageKind == [type |-> "m.room.message", msgtype |-> "m.image", body |-> "photo.png"]
MemberKind == [type |-> "m.room.member", msgtype |-> Null, body |-> Null]
HelpText == [type |-> "m.room.message", msgtype |-> "m.text", body |-> "/help"]
LinesText == [type |-> "m.room.message", msgtype |-> "m.text", body |-> "/lines 5"]

\* The events of the account's rooms. An event id names one event: its room,
\* sender and content never differ between two deliveries of the same id.
\* A text message of the human in every room, the bot's own text in two
\* rooms, two events that are not text messages, and the human's two
\* documented commands.
EventIds ==
    {<<r, HumanUser, TextKind>> : r \in Rooms}
    \cup {<<"!r1", BotUser, TextKind>>, <<"!r4", BotUser, TextKind>>,
          <<"!r1", HumanUser, ImageKind>>, <<"!r1", HumanUser, MemberKind>>,
          <<"!r1", HumanUser, HelpText>>, <<"!r1", HumanUser, LinesText>>}

Event(id) == [id |-> id, room |-> id[1], sender |-> id[2],
              type |-> id[3].type, msgtype |-> id[3].msgtype, body |-> id[3].body]

----------------------------------------------------------------------------
(* lib/config.js: the session store *)

NoRooms == << >>

\* A parsed session record. A field the JSON object lacks is Null; a missing
\* rooms map is the empty map, which is what every reader makes of it
\* (getSessionRoom line 516, getRoomToSessionMap line 39).
SessionRecord(token, user, rooms, current) ==
    [accessToken |-> token, userId |-> user, rooms |-> rooms, currentRoom |-> current]

EmptyRecord == SessionRecord(Null, Null, NoRooms, Null)

\* The file: absent, holding the JSON of a record, or holding text that is
\* not JSON (a truncated or hand-edited file).
JsonFile(rec) == [kind |-> "json", rec |-> rec]
AbsentFile == [kind |-> "absent", rec |-> EmptyRecord]
CorruptFile == [kind |-> "corrupt", rec |-> EmptyRecord]

\* loadSession, lines 44-50: {} when the file does not exist, else
\* JSON.parse of its text, which throws a SyntaxError on text that is not JSON.
loadSession(file) ==
    CASE file.kind = "absent" -> [threw |-> FALSE, value |-> EmptyRecord]
      [] file.kind = "json" -> [threw |-> FALSE, value |-> file.rec]
      [] file.kind = "corrupt" -> [threw |-> TRUE, value |-> EmptyRecord]

\* saveSession, lines 53-56: the file becomes the JSON of the record
saveSession(rec) == JsonFile(rec)

----------------------------------------------------------------------------
(* matrix-listener: pure helpers *)

\* line 38: const reverseMap = {}
getRoomToSessionMap_Empty(file) == << >>

\* getRoomToSessionMap: the reverse of session.rooms. Room ids come one per
\* createRoom call, so no two keys share one and the iteration order of
\* Object.entries does not matter.
getRoomToSessionMap(file) ==
    LET s == loadSession(file).value IN
    [r \in {s.rooms[k] : k \in DOMAIN s.rooms} |->
             CHOOSE k \in DOMAIN s.rooms : s.rooms[k] = r]

\* getTmuxTarget: parts.slice(1).join(":") when there are 3 parts or more
getTmuxTarget(sessionKey) ==
    IF Len(sessionKey) >= 3 THEN SubSeq(sessionKey, 2, Len(sessionKey))
    ELSE NoTarget

\* lines 132-133: historical events and events before PREPARED are ignored
IsLive_NoReadyCheck(toStartOfTimeline, ready) == ~toStartOfTimeline

IsLive(toStartOfTimeline, ready) == ~toStartOfTimeline /\ ready

\* lines 136-139
IsTextMessage(ev) == ev.type = "m.room.message" /\ ev.msgtype = "m.text"

\* line 142
IsOwnMessage_Never(sender, userId) == FALSE

IsOwnMessage(sender, userId) == sender = userId

\* line 146: processedEvents.has(eventId)
InSeq(s, x) == \E i \in 1..Len(s) : s[i] = x

HasProcessed_Never(processed, eventId) == FALSE

HasProcessed(processed, eventId) == InSeq(processed, eventId)

\* lines 152-158: add, then drop the first (oldest) id when over the limit
AddProcessed_NoLimit(processed, eventId) == Append(processed, eventId)

AddProcessed_EvictsNewest(processed, eventId) ==
    IF Len(processed) >= DedupCapacity
    THEN Append(SubSeq(processed, 1, Len(processed) - 1), eventId)
    ELSE Append(processed, eventId)

AddProcessed(processed, eventId) ==
    LET added == Append(processed, eventId) IN
    IF Len(added) > DedupCapacity THEN Tail(added) ELSE added

\* line 185: this.myTmuxTarget && tmuxTarget !== this.myTmuxTarget
NotMyTarget_Never(mine, tmuxTarget) == FALSE

NotMyTarget(mine, tmuxTarget) == mine # NoTarget /\ tmuxTarget # mine

----------------------------------------------------------------------------
(* matrix-listener: the Room.timeline handler as a function of the listener *)

\* Which return of the handler an event takes, and the pane it is written to
Outcome(l, ev, toStartOfTimeline) ==
    IF ~IsLive(toStartOfTimeline, syncReady[l]) THEN
        [at |-> IF toStartOfTimeline THEN "historical" ELSE "not_ready", target |-> NoTarget]
    ELSE IF ~IsTextMessage(ev) THEN [at |-> "not_text", target |-> NoTarget]
    ELSE IF IsOwnMessage(ev.sender, session[l].userId) THEN [at |-> "own", target |-> NoTarget]
    ELSE IF HasProcessed(processedEvents[l], ev.id) THEN [at |-> "duplicate", target |-> NoTarget]
    ELSE IF ev.room \notin DOMAIN roomToSession[l] THEN [at |-> "unmapped", target |-> NoTarget]
    ELSE LET tmuxTarget == getTmuxTarget(roomToSession[l][ev.room]) IN
         IF tmuxTarget = NoTarget THEN [at |-> "no_target", target |-> NoTarget]
         ELSE IF NotMyTarget(myTmuxTarget[l], tmuxTarget) THEN
             [at |-> "not_mine", target |-> NoTarget]
         ELSE [at |-> "written", target |-> tmuxTarget]

\* The returns that come after processedEvents.add
Recorded_OnlyWritten(at) == at = "written"

Recorded(at) == at \in {"unmapped", "no_target", "not_mine", "written"}

----------------------------------------------------------------------------
(* The outbound notifier at rest *)

\* Concurrent hook handlers: ipcServer.on("hook", async ...) starts one call
\* per hook event and awaits none of them.
Handlers == {"h1", "h2"}

\* null for a session key
NoKey == << >>

NoTask ==
    [pc |-> "idle", stage |-> "notify", type |-> Null, key |-> NoKey,
     token |-> Null, sess |-> EmptyRecord, existing |-> Null, listed |-> "none", created |-> 0,
     roomId |-> Null, isExisting |-> FALSE, typing |-> "null", typingRoom |-> Null,
     error |-> Null]

NoCall == [api |-> "none", handler |-> Null, event |-> Null, tool |-> Null,
           ntype |-> Null, store |-> Null]

\* The relay and the hook clients at rest: new IPCServer(), lines 15-20, and
\* no hook-ping process yet
Pingers == {"p1", "p2"}

NoText == << >>

NoServer == [started |-> FALSE, server |-> FALSE, listening |-> FALSE, stopThrew |-> FALSE]
NoPing == [pc |-> "new", input |-> NoText, sent |-> 0, why |-> Null, exit |-> Null]
NoConn == [state |-> "none", data |-> NoText]

RelayQuiet ==
    /\ ipc = NoServer
    /\ socketFile = FALSE
    /\ stops = 0
    /\ ping = [p \in Pingers |-> NoPing]
    /\ conn = [p \in Pingers |-> NoConn]
    /\ emitted = [p \in Pingers |-> 0]

InitialToken == "tok0"
InitialRoom == "!room0"

NotifierQuiet ==
    /\ validTokens = {InitialToken}
    /\ joinedRooms = {}
    /\ createdRooms = 0
    /\ logins = 0
    /\ task = [h \in Handlers |-> NoTask]
    /\ notified = 0
    /\ lastCall = NoCall
    /\ RelayQuiet

----------------------------------------------------------------------------
(* ListenerSpec and CoordinatorsSpec *)

NoEvent == [listener |-> Null]

NoLife == [start |-> "none", hadCredential |-> FALSE, spawned |-> FALSE,
           stopped |-> FALSE, stopClientCalls |-> 0]

\* The store after the coordinator's upfront getClient(): a credential, and
\* the rooms of the sessions `ks` that have been notified about so far.
StoreWithRooms(ks) ==
    JsonFile(SessionRecord(InitialToken, BotUser, [k \in ks |-> RoomOfKey(k)], Null))

\* The `code` argument of the child's "exit" event when a signal terminated
\* it, and process.exit's argument while the coordinator runs: null
NoCode == -1

\* main() before ipcServer.start(): nothing wrapped yet
\* and no "hook" listener on the relay, no hook event handled or rejected
NoProc == [pc |-> "main", child |-> "none", forwarded |-> {}, code |-> NoCode,
           signal |-> Null, why |-> Null, exit |-> NoCode,
           handler |-> FALSE, handled |-> 0, unhandled |-> 0]

\* sendClaudeNotification has rendered no question yet
NoRender == [done |-> FALSE, questions |-> << >>, message |-> Null, text |-> << >>,
             typing |-> "null"]

\* no session key has been asked for yet, main has not started
MainQuiet ==
    /\ keyCalls = << >>
    /\ proc = NoProc
    /\ rendered = NoRender
    /\ fresh = FALSE
    /\ writeFailures = {}
    /\ sentRoom = [h \in Handlers |-> Null]

\* new MatrixListener(getTmuxPane()), claude-matrix.js lines 468-474, for the
\* coordinators in `running`
\* the fields the constructor sets, lines 98-101, and empty histories
ListenerFresh ==
    /\ client = [l \in Listeners |-> FALSE]
    /\ session = [l \in Listeners |-> EmptyRecord]
    /\ syncReady = [l \in Listeners |-> FALSE]
    /\ roomToSession = [l \in Listeners |-> << >>]
    /\ processedEvents = [l \in Listeners |-> << >>]
    /\ tmuxWrites = [l \in Listeners |-> [e \in EventIds |-> 0]]
    /\ paneWrites = {}
    /\ since = [l \in Listeners |-> [e \in EventIds |-> 0]]
    /\ lastEvent = NoEvent
    /\ delivered = 0
    /\ life = [l \in Listeners |-> NoLife]

Constructed(running, stores) ==
    /\ coordinators = running
    /\ sessionFile \in stores
    /\ myTmuxTarget \in [Listeners -> Panes \cup {NoTarget}]
    /\ \A l \in Listeners \ running : myTmuxTarget[l] = NoTarget
    /\ ListenerFresh
    /\ MainQuiet
    /\ NotifierQuiet

\* line 108
HasCredential_Unchecked(s) == TRUE

HasCredential(s) == s.accessToken # Null /\ s.userId # Null

\* start(), lines 105-215, awaited by main, which then spawns the wrapped
\* program whatever start() returned (claude-matrix.js, lines 474-497)
listenerStart(l) ==
    /\ ~client[l]
    /\ life[l].start = "none"
    /\ ~loadSession(sessionFile).threw
    /\ LET s == loadSession(sessionFile).value IN
       /\ life' = [life EXCEPT ![l] =
                     [@ EXCEPT !.start = IF HasCredential(s) THEN "true" ELSE "false",
                               !.hadCredential = s.accessToken # Null /\ s.userId # Null,
                               !.spawned = TRUE]]
       /\ IF HasCredential(s)
          THEN /\ roomToSession' =
                    [roomToSession EXCEPT ![l] = getRoomToSessionMap(sessionFile)]
               /\ client' = [client EXCEPT ![l] = TRUE]
               /\ session' = [session EXCEPT ![l] = s]
          ELSE UNCHANGED <<roomToSession, client, session>>
    /\ UNCHANGED <<sessionFile, coordinators, myTmuxTarget, syncReady, processedEvents,
                   tmuxWrites, paneWrites, since, lastEvent, delivered>>

Start(l) == listenerStart(l) /\ UNCHANGED <<nvars, rvars, mvars>>

\* the "sync" handler, lines 199-206
SyncStates == {"PREPARED", "SYNCING", "RECONNECTING", "ERROR"}

\* lines 200-202: only PREPARED is looked at
ReadyAfter_FollowsState(ready, state) == state = "PREPARED"

ReadyAfter(ready, state) == IF state = "PREPARED" THEN TRUE ELSE ready

Sync(l, state) ==
    /\ client[l]
    /\ ~life[l].stopped
    /\ syncReady' = [syncReady EXCEPT ![l] = ReadyAfter(@, state)]
    /\ UNCHANGED <<sessionFile, coordinators, myTmuxTarget, client, session, roomToSession,
                   processedEvents, tmuxWrites, paneWrites, since, lastEvent, delivered,
                   life>>
    /\ UNCHANGED <<nvars, rvars, mvars>>

\* the "Room.timeline" handler, lines 130-196
onRoomTimeline(l, id, toStartOfTimeline) ==
    /\ client[l]
    /\ ~life[l].stopped
    /\ delivered < MaxDeliveries
    /\ LET ev == Event(id)
           out == Outcome(l, ev, toStartOfTimeline)
       IN
       /\ processedEvents' =
            [processedEvents EXCEPT ![l] =
                IF Recorded(out.at) THEN AddProcessed(@, id) ELSE @]
       /\ tmuxWrites' =
            [tmuxWrites EXCEPT ![l][id] = IF out.at = "written" THEN @ + 1 ELSE @]
       /\ since' =
            [since EXCEPT ![l] =
                IF Recorded(out.at)
                THEN [e \in EventIds |->
                        IF e = id THEN 0
                        ELSE IF @[e] < DedupCapacity THEN @[e] + 1 ELSE @[e]]
                ELSE @]
       /\ paneWrites' =
            IF out.at = "written"
            THEN paneWrites \cup {[listener |-> l, id |-> id, target |-> out.target,
                                   historical |-> toStartOfTimeline,
                                   ready |-> syncReady[l]]}
            ELSE paneWrites
       /\ lastEvent' = [listener |-> l, id |-> id, historical |-> toStartOfTimeline,
                        at |-> out.at]
    /\ delivered' = delivered + 1
    /\ UNCHANGED <<sessionFile, coordinators, myTmuxTarget, client, session, syncReady,
                   roomToSession, life>>

Timeline(l, id, toStartOfTimeline) ==
    onRoomTimeline(l, id, toStartOfTimeline) /\ UNCHANGED <<nvars, rvars, mvars>>

\* refreshRoomMapping(), lines 218-223, on the coordinator's 10 s timer
roomMappingRefreshed(l) ==
    /\ ~life[l].stopped
    /\ ~loadSession(sessionFile).threw
    /\ roomToSession' = [roomToSession EXCEPT ![l] = getRoomToSessionMap(sessionFile)]
    /\ UNCHANGED <<sessionFile, coordinators, myTmuxTarget, client, session, syncReady,
                   processedEvents, tmuxWrites, paneWrites, since, lastEvent, delivered,
                   life>>

refreshRoomMapping(l) == roomMappingRefreshed(l) /\ UNCHANGED <<nvars, rvars, mvars>>

\* stop(), lines 225-232, called by main's cleanup() when the wrapped
\* program has exited (claude-matrix.js, lines 500-510)
listenerStop(l) ==
    /\ life[l].spawned
    /\ ~life[l].stopped
    /\ life' = [life EXCEPT ![l] =
                  [@ EXCEPT !.stopped = TRUE,
                            !.stopClientCalls = IF client[l] THEN @ + 1 ELSE @]]
    /\ UNCHANGED <<sessionFile, coordinators, myTmuxTarget, client, session, syncReady,
                   roomToSession, processedEvents, tmuxWrites, paneWrites, since,
                   lastEvent, delivered>>

Stop(l) == listenerStop(l) /\ UNCHANGED <<nvars, rvars, mvars>>

\* The outbound notifier records the room of a session that had none
\* (getSessionRoom's save, seen from the listener)
roomSaved(k) ==
    /\ ~loadSession(sessionFile).threw
    /\ LET s == loadSession(sessionFile).value IN
       /\ HasCredential(s)
       /\ k \notin DOMAIN s.rooms
       /\ sessionFile' = saveSession(
            [s EXCEPT !.rooms = [x \in DOMAIN s.rooms \cup {k} |->
                                    IF x = k THEN RoomOfKey(k) ELSE s.rooms[x]],
                      !.currentRoom = RoomOfKey(k)])
    /\ UNCHANGED <<coordinators, lvars>>

RoomRecorded(k) == roomSaved(k) /\ UNCHANGED <<nvars, rvars, mvars>>

\* One coordinator, every kind of event
ListenerInit ==
    Constructed({"L1"}, {AbsentFile, StoreWithRooms({}), StoreWithRooms({KeyPane1, KeyDir})})

ListenerNext ==
    \/ \E l \in coordinators : Start(l)
    \/ \E l \in coordinators, state \in SyncStates : Sync(l, state)
    \/ \E l \in coordinators, id \in EventIds, h \in BOOLEAN : Timeline(l, id, h)
    \/ \E l \in coordinators : refreshRoomMapping(l)
    \/ \E l \in coordinators : Stop(l)
    \/ RoomRecorded(KeyPane2)

ListenerSpec == ListenerInit /\ [][ListenerNext]_vars

\* Two coordinators on one host sharing the account and the store, each
\* receiving the account's live text messages on its own sync
ChatEventIds == {id \in EventIds : id[2] = HumanUser /\ id[3] = TextKind}

CoordinatorsInit == Constructed(Listeners, {StoreWithRooms(SessionKeys)})

CoordinatorsNext ==
    \/ \E l \in coordinators : Start(l)
    \/ \E l \in coordinators : Sync(l, "PREPARED")
    \/ \E l \in coordinators, id \in ChatEventIds : Timeline(l, id, FALSE)

CoordinatorsSpec == CoordinatorsInit /\ [][CoordinatorsNext]_vars

----------------------------------------------------------------------------
(* matrix-bridge: the outbound notifier *)

\* notifier calls, createRoom calls and logins in one behaviour
MaxNotifications == 3
MaxRooms == 2
MaxLogins == 1

\* The session keys notifications are sent for, and null (sendNotification
\* called without a key, as the CLI does)
NotifyKeys == {KeyPane1, NoKey}

NotifyTypes == {"stop", "other"}

\* sendClaudeNotification's switch, lines 591-655: the typing value of a type
TypingOf_AlwaysFalse(type) == "false"

TypingOf(type) ==
    CASE type \in {"session_start", "tool_use"} -> "true"
      [] type \in {"question", "stop", "permission"} -> "false"
      [] OTHER -> "null"

\* a call that returned, and one that rejected: its locals are gone
Returned == [NoTask EXCEPT !.pc = "done"]
Failed_Swallowed(t, error) == Returned
Failed(t, error) == [NoTask EXCEPT !.pc = "failed", !.error = error]

\* getClient up to its first await, lines 449-461
getClientBegin(t, file) ==
    LET ld == loadSession(file) IN
    IF ld.threw THEN Failed(t, "SyntaxError")
    ELSE IF ld.value.accessToken # Null /\ ld.value.userId # Null
    THEN [t EXCEPT !.pc = "whoami", !.token = ld.value.accessToken]
    ELSE [t EXCEPT !.pc = "login"]

\* lines 479-482: the record getClient saves after a fresh login
NewSession(token, user) == SessionRecord(token, user, NoRooms, Null)

\* getSessionRoom up to its first await, lines 513-525 (or 538)
getSessionRoomBegin(t, file) ==
    LET ld == loadSession(file) IN
    IF ld.threw THEN Failed(t, "SyntaxError")
    ELSE IF t.key # NoKey /\ t.key \in DOMAIN ld.value.rooms
    THEN [t EXCEPT !.pc = "joined", !.sess = ld.value, !.existing = ld.value.rooms[t.key]]
    ELSE [t EXCEPT !.pc = "create", !.sess = ld.value, !.existing = Null]

\* line 568
HasCurrentRoom_Always(rec) == TRUE

HasCurrentRoom(rec) == rec.currentRoom # Null

\* setTyping after getClient, lines 566-572
setTypingBegin(t, file) ==
    LET ld == loadSession(file) IN
    IF ld.threw THEN Failed(t, "SyntaxError")
    ELSE IF ~HasCurrentRoom(ld.value) THEN Returned
    ELSE [t EXCEPT !.pc = "typing", !.typingRoom = ld.value.currentRoom]

\* what runs when getClient returns: lines 558 / 660, or 566
AfterClient_TypingFirst(t, file) == setTypingBegin(t, file)

AfterClient(t, file) ==
    IF t.stage = "notify" THEN getSessionRoomBegin(t, file) ELSE setTypingBegin(t, file)

\* line 526
Includes(joined_rooms, roomId) == roomId \in joined_rooms

\* lines 528-529: the record saved when the room is reused
ReuseRoom_NoCurrentRoom(sess, roomId) == sess

ReuseRoom(sess, roomId) == [sess EXCEPT !.currentRoom = roomId]

\* lines 541-545: the record saved after a room was created
RecordNewRoom_OnlyCurrentRoom(sess, key, roomId) == [sess EXCEPT !.currentRoom = roomId]

\* a save that would re-read the store and merge into what it holds now
RecordNewRoom_Merged(sess, key, roomId) ==
    LET now == loadSession(sessionFile).value IN
    [now EXCEPT
        !.rooms = IF key = NoKey THEN @
                  ELSE [k \in DOMAIN @ \cup {key} |-> IF k = key THEN roomId ELSE @[k]],
        !.currentRoom = roomId]

RecordNewRoom(sess, key, roomId) ==
    [sess EXCEPT
        !.rooms = IF key = NoKey THEN @
                  ELSE [k \in DOMAIN @ \cup {key} |-> IF k = key THEN roomId ELSE @[k]],
        !.currentRoom = roomId]

\* the homeserver's room and token ids
RoomId(n) == "!room" \o ToString(n)
Token(n) == "tok" \o ToString(n)

\* sendClaudeNotification / sendNotification called by a hook handler,
\* lines 576-660 up to getClient's first await
Notify(h, type, key) ==
    /\ task[h].pc \in {"idle", "done", "failed"}
    /\ notified < MaxNotifications
    /\ task' = [task EXCEPT ![h] =
                  getClientBegin([NoTask EXCEPT !.type = type, !.key = key,
                                                !.typing = TypingOf(type)], sessionFile)]
    /\ notified' = notified + 1
    /\ lastCall' = NoCall
    /\ UNCHANGED <<sessionFile, validTokens, joinedRooms, createdRooms, logins>>
    /\ UNCHANGED <<coordinators, lvars, rvars, mvars>>

\* client.whoami() settles, lines 460-465
WhoamiReply(h, ok) ==
    /\ task[h].pc = "whoami"
    /\ task' = [task EXCEPT ![h] =
                  IF ok /\ task[h].token \in validTokens
                  THEN AfterClient(@, sessionFile)
                  ELSE [@ EXCEPT !.pc = "login"]]
    /\ UNCHANGED <<sessionFile, validTokens, joinedRooms, createdRooms, logins, notified, lastCall>>
    /\ UNCHANGED <<coordinators, lvars, rvars, mvars>>

\* line 475: the login is awaited outside any try, its rejection is getClient's
LoginRejected_Retried(t) == [t EXCEPT !.pc = "whoami"]

LoginRejected(t) == Failed(t, "LoginFailed")

\* tempClient.login() settles, lines 474-491
LoginReply(h, ok) ==
    /\ task[h].pc = "login"
    /\ IF ok
       THEN /\ logins < MaxLogins
            /\ logins' = logins + 1
            /\ validTokens' = validTokens \cup {Token(logins')}
            /\ sessionFile' = saveSession(NewSession(Token(logins'), BotUser))
            /\ task' = [task EXCEPT ![h] = AfterClient(@, sessionFile')]
       ELSE /\ task' = [task EXCEPT ![h] = LoginRejected(@)]
            /\ UNCHANGED <<sessionFile, validTokens, logins>>
    /\ UNCHANGED <<joinedRooms, createdRooms, notified, lastCall>>
    /\ UNCHANGED <<coordinators, lvars, rvars, mvars>>

\* client.getJoinedRooms() settles, lines 525-535
JoinedReply(h, ok) ==
    /\ task[h].pc = "joined"
    /\ LET t == task[h] IN
       IF ok /\ Includes(joinedRooms, t.existing)
       THEN /\ sessionFile' = saveSession(ReuseRoom(t.sess, t.existing))
            /\ task' = [task EXCEPT ![h] =
                          [@ EXCEPT !.pc = "send", !.listed = "has", !.sess = EmptyRecord,
                                    !.roomId = t.existing, !.isExisting = TRUE]]
       ELSE /\ task' = [task EXCEPT ![h] =
                          [@ EXCEPT !.pc = "create",
                                    !.listed = IF ok THEN "lacks" ELSE "error"]]
            /\ UNCHANGED sessionFile
    /\ UNCHANGED <<validTokens, joinedRooms, createdRooms, logins, notified, lastCall>>
    /\ UNCHANGED <<coordinators, lvars, rvars, mvars>>

\* client.createRoom() settles, lines 501-508 and 538-547
CreateReply(h, ok) ==
    /\ task[h].pc = "create"
    /\ LET t == task[h] IN
       IF ok
       THEN /\ createdRooms < MaxRooms
            /\ createdRooms' = createdRooms + 1
            /\ joinedRooms' = joinedRooms \cup {RoomId(createdRooms')}
            /\ sessionFile' = saveSession(RecordNewRoom(t.sess, t.key, RoomId(createdRooms')))
            /\ task' = [task EXCEPT ![h] =
                          [@ EXCEPT !.pc = "send", !.created = @ + 1, !.sess = EmptyRecord,
                                    !.roomId = RoomId(createdRooms'), !.isExisting = FALSE]]
       ELSE /\ task' = [task EXCEPT ![h] = Failed(@, "CreateRoomError")]
            /\ UNCHANGED <<sessionFile, joinedRooms, createdRooms>>
    /\ UNCHANGED <<validTokens, logins, notified, lastCall>>
    /\ UNCHANGED <<coordinators, lvars, rvars, mvars>>

\* client.sendTextMessage() settles, lines 559 / 677, then the typing update
\* starts, lines 680-682 / 690-692
sendSettled(h, ok) ==
    /\ task[h].pc = "send"
    /\ LET t == task[h] IN
       task' = [task EXCEPT ![h] =
                  IF ~ok THEN Failed(@, "TransportError")
                  ELSE IF t.typing = "null" THEN Returned
                  ELSE getClientBegin([NoTask EXCEPT !.stage = "typing", !.type = t.type,
                                                     !.key = t.key, !.typing = t.typing],
                                      sessionFile)]
    /\ UNCHANGED <<sessionFile, validTokens, joinedRooms, createdRooms, logins, notified, lastCall>>

SendReply(h, ok) == sendSettled(h, ok) /\ UNCHANGED <<coordinators, lvars, rvars, mvars>>

\* client.sendTyping() settles, line 572
TypingReply(h, ok) ==
    /\ task[h].pc = "typing"
    /\ task' = [task EXCEPT ![h] =
                  IF ok THEN Returned ELSE Failed(@, "TransportError")]
    /\ UNCHANGED <<sessionFile, validTokens, joinedRooms, createdRooms, logins, notified, lastCall>>
    /\ UNCHANGED <<coordinators, lvars, rvars, mvars>>

\* The store when the first hook arrives: no file, a file that is not JSON,
\* the credential of the upfront getClient(), or that with the room of an
\* earlier run of the session.  The homeserver may have stopped accepting
\* the stored token, and the bot may have been removed from the stored room.
NotifierInit ==
    /\ coordinators = {}
    /\ myTmuxTarget = [l \in Listeners |-> NoTarget]
    /\ ListenerFresh
    /\ MainQuiet
    /\ validTokens \in {{InitialToken}, {}}
    /\ createdRooms = 0
    /\ logins = 0
    /\ task = [h \in Handlers |-> NoTask]
    /\ notified = 0
    /\ lastCall = NoCall
    /\ RelayQuiet
    /\ \/ /\ sessionFile \in {AbsentFile, CorruptFile,
                              JsonFile(SessionRecord(InitialToken, BotUser, NoRooms, Null))}
          /\ joinedRooms = {}
       \/ /\ sessionFile = JsonFile(SessionRecord(InitialToken, BotUser,
                                                  [k \in {KeyPane1} |-> InitialRoom],
                                                  InitialRoom))
          /\ joinedRooms \in {{InitialRoom}, {}}

NotifierNext ==
    \/ \E h \in Handlers, type \in NotifyTypes, key \in NotifyKeys : Notify(h, type, key)
    \/ \E h \in Handlers, ok \in BOOLEAN : WhoamiReply(h, ok)
    \/ \E h \in Handlers, ok \in BOOLEAN : LoginReply(h, ok)
    \/ \E h \in Handlers, ok \in BOOLEAN : JoinedReply(h, ok)
    \/ \E h \in Handlers, ok \in BOOLEAN : CreateReply(h, ok)
    \/ \E h \in Handlers, ok \in BOOLEAN : SendReply(h, ok)
    \/ \E h \in Handlers, ok \in BOOLEAN : TypingReply(h, ok)

NotifierSpec == NotifierInit /\ [][NotifierNext]_vars

----------------------------------------------------------------------------
(* claude-matrix: one hook handler, and the notifier's exported calls *)

\* hook_event_name, tool_name and notification_type of a payload, and the
\* session key getSessionKey(cwd) gives it
HookPayloads ==
    {[event |-> "SessionStart", tool |-> Null, ntype |-> Null],
     [event |-> "PreToolUse", tool |-> "AskUserQuestion", ntype |-> Null],
     [event |-> "PreToolUse", tool |-> "Bash", ntype |-> Null],
     [event |-> "PreToolUse", tool |-> "Edit", ntype |-> Null],
     [event |-> "PreToolUse", tool |-> "Write", ntype |-> Null],
     [event |-> "Stop", tool |-> Null, ntype |-> Null],
     [event |-> "Notification", tool |-> Null, ntype |-> "idle_prompt"],
     [event |-> "Notification", tool |-> Null, ntype |-> "permission_prompt"],
     [event |-> "SubagentStop", tool |-> Null, ntype |-> Null]}

HookKeys == {KeyPane1, KeyDir}

\* every type sendClaudeNotification's switch names, and one it does not
AllTypes == {"session_start", "tool_use", "question", "stop", "permission", "other"}

\* handleHookEvent's switch, lines 315-394: the type of the notification a
\* payload is sent as, or null when none is sent
HookType_DefaultStop(payload) ==
    CASE payload.event = "SessionStart" -> "session_start"
      [] payload.event = "PreToolUse" ->
            IF payload.tool = "AskUserQuestion" THEN "question" ELSE Null
      [] OTHER -> "stop"

HookType(payload) ==
    CASE payload.event = "SessionStart" -> "session_start"
      [] payload.event = "PreToolUse" ->
            IF payload.tool = "AskUserQuestion" THEN "question" ELSE Null
      [] payload.event = "Stop" -> "stop"
      [] payload.event = "Notification" ->
            IF payload.ntype = "idle_prompt" THEN "stop" ELSE Null
      [] OTHER -> Null

\* what a caller finds in the store when it makes a call
StoreState(file) ==
    CASE file.kind = "corrupt" -> "corrupt"
      [] file.kind = "json" /\ file.rec.currentRoom # Null -> "room"
      [] OTHER -> "no_room"

\* handleHookEvent, lines 299-401, up to the first await of the call it makes
Hook(h, payload, key) ==
    /\ task[h].pc \in {"idle", "done", "failed"}
    /\ notified < MaxNotifications
    /\ LET type == HookType(payload) IN
       task' = [task EXCEPT ![h] =
                  IF type = Null THEN NoTask
                  ELSE getClientBegin([NoTask EXCEPT !.type = type, !.key = key,
                                                     !.typing = TypingOf(type)], sessionFile)]
    /\ notified' = notified + 1
    /\ lastCall' = [api |-> "hook", handler |-> h, event |-> payload.event,
                    tool |-> payload.tool, ntype |-> payload.ntype,
                    store |-> StoreState(sessionFile)]
    /\ UNCHANGED <<sessionFile, validTokens, joinedRooms, createdRooms, logins>>
    /\ UNCHANGED <<coordinators, lvars, rvars, mvars>>

\* setTyping called on its own, lines 564-566
SetTyping(h, isTyping) ==
    /\ task[h].pc \in {"idle", "done", "failed"}
    /\ notified < MaxNotifications
    /\ task' = [task EXCEPT ![h] =
                  getClientBegin([NoTask EXCEPT !.stage = "typing", !.typing = isTyping],
                                 sessionFile)]
    /\ notified' = notified + 1
    /\ lastCall' = [NoCall EXCEPT !.api = "setTyping", !.handler = h,
                                  !.store = StoreState(sessionFile)]
    /\ UNCHANGED <<sessionFile, validTokens, joinedRooms, createdRooms, logins>>
    /\ UNCHANGED <<coordinators, lvars, rvars, mvars>>

TheHandler == "h1"

HookInit == NotifierInit

HookNext ==
    \/ \E payload \in HookPayloads, key \in HookKeys : Hook(TheHandler, payload, key)
    \/ \E type \in AllTypes, key \in NotifyKeys : Notify(TheHandler, type, key)
    \/ \E isTyping \in {"true", "false"} : SetTyping(TheHandler, isTyping)
    \/ \E ok \in BOOLEAN : WhoamiReply(TheHandler, ok)
    \/ \E ok \in BOOLEAN : LoginReply(TheHandler, ok)
    \/ \E ok \in BOOLEAN : JoinedReply(TheHandler, ok)
    \/ \E ok \in BOOLEAN : CreateReply(TheHandler, ok)
    \/ \E ok \in BOOLEAN : SendReply(TheHandler, ok)
    \/ \E ok \in BOOLEAN : TypingReply(TheHandler, ok)

HookSpec == HookInit /\ [][HookNext]_vars

----------------------------------------------------------------------------
(* ipc-server and hook-ping: the event relay and its clients *)

\* stop() calls in one behaviour
MaxStops == 2

\* Text is a sequence of pieces: "[" and "]" are JSON's array brackets, " "
\* is white space and "x" is a character no JSON text has outside a string.
\* What hook-ping reads from its standard input:
PingInputs ==
    {NoText, <<" ">>, <<"[", "]">>, <<"[", " ", "]">>, <<"[", "x", "]">>, <<"[", "[", "]">>}

NotSpace(c) == c # " "

\* String.prototype.trim() gives the empty string, hook-ping line 37
TrimIsEmpty(text) == SelectSeq(text, NotSpace) = NoText

\* pieces that are a JSON text by themselves: null, a number and a string
Scalars == {"null", "7", "\"a\""}

\* JSON.parse(data) returns, line 45: over these pieces the JSON texts are
\* a scalar, the empty object { } and the nested arrays [ ], [[ ]], ...,
\* with white space anywhere around and between
ParsesAsJSON(text) ==
    LET t == SelectSeq(text, NotSpace) IN
    \/ Len(t) = 1 /\ t[1] \in Scalars
    \/ t = <<"{", "}">>
    \/ /\ Len(t) >= 2
       /\ Len(t) % 2 = 0
       /\ \A i \in 1..Len(t) : t[i] = IF 2 * i <= Len(t) THEN "[" ELSE "]"

\* typeof JSON.parse(data), with null and arrays told apart
JSONKind(text) ==
    LET t == SelectSeq(text, NotSpace) IN
    CASE t = <<"null">> -> "null"
      [] t = <<"7">> -> "number"
      [] t = <<"\"a\"">> -> "string"
      [] t = <<"{", "}">> -> "object"
      [] OTHER -> "array"

\* lines 45-49: the payload is emitted unless JSON.parse or, with
\* MATRIX_DEBUG=1, the log line's payload.type throws
Emits(data, debug) ==
    ParsesAsJSON(data) /\ ~(debug /\ JSONKind(data) = "null")

\* data += chunk.toString(), line 40
AppendChunk_Overwrite(data, chunk) == chunk

AppendChunk(data, chunk) == data \o chunk

\* line 83
HasServer_Unchecked(server) == TRUE

HasServer(server) == server.server

\* the status of each process.exit() call of hook-ping, lines 21, 38, 49, 53, 59
ExitStatus_FailsWhenUnreachable(why) == IF why = "connect_error" THEN 1 ELSE 0

ExitStatus(why) == 0

Exited(pg, why) == [pg EXCEPT !.pc = "exited", !.why = why, !.exit = ExitStatus(why)]

\* IPCServer.start(), lines 26-77: a stale socket file is removed, and
\* listen() binds the path unless it fails
IpcStart(bound) ==
    /\ ~ipc.started
    /\ ipc' = [ipc EXCEPT !.started = TRUE, !.server = TRUE, !.listening = bound]
    /\ socketFile' = bound
    /\ UNCHANGED <<stops, ping, conn, emitted>>
    /\ UNCHANGED <<sessionFile, coordinators, lvars, nvars, mvars>>

\* IPCServer.stop(), lines 82-99; closing the server leaves the connections
\* it has accepted open
ipcServerStop ==
    /\ stops < MaxStops
    /\ stops' = stops + 1
    /\ IF HasServer(ipc) /\ ~ipc.server
       THEN \* null.close()
            /\ ipc' = [ipc EXCEPT !.stopThrew = TRUE]
            /\ UNCHANGED socketFile
       ELSE /\ ipc' = [ipc EXCEPT !.server = FALSE, !.listening = FALSE, !.stopThrew = FALSE]
            /\ socketFile' = FALSE
    /\ UNCHANGED <<ping, conn, emitted>>

IpcStop == ipcServerStop /\ UNCHANGED <<sessionFile, coordinators, lvars, nvars, mvars>>

\* hook-ping starts, lines 17-34
PingStart(p, configured, input) ==
    /\ ping[p].pc = "new"
    /\ ping' = [ping EXCEPT ![p] =
                  IF configured THEN [@ EXCEPT !.pc = "reading", !.input = input]
                  ELSE Exited(@, "no_socket")]
    /\ UNCHANGED <<ipc, socketFile, stops, conn, emitted>>
    /\ UNCHANGED <<sessionFile, coordinators, lvars, nvars, mvars>>

\* stdin ends, lines 36-45
StdinEnd(p) ==
    /\ ping[p].pc = "reading"
    /\ ping' = [ping EXCEPT ![p] =
                  IF TrimIsEmpty(@.input) THEN Exited(@, "empty_stdin")
                  ELSE [@ EXCEPT !.pc = "connecting"]]
    /\ UNCHANGED <<ipc, socketFile, stops, conn, emitted>>
    /\ UNCHANGED <<sessionFile, coordinators, lvars, nvars, mvars>>

\* stdin fails, lines 58-60
StdinError(p) ==
    /\ ping[p].pc = "reading"
    /\ ping' = [ping EXCEPT ![p] = Exited(@, "stdin_error")]
    /\ UNCHANGED <<ipc, socketFile, stops, conn, emitted>>
    /\ UNCHANGED <<sessionFile, coordinators, lvars, nvars, mvars>>

\* connect() settles: the relay accepts the connection and hook-ping
\* writes its input and ends its side, lines 42-45 and 36-37 of the relay;
\* or the relay is not listening, lines 47-50
Connect(p) ==
    /\ ping[p].pc = "connecting"
    /\ IF ipc.listening
       THEN /\ ping' = [ping EXCEPT ![p] = [@ EXCEPT !.pc = "written"]]
            /\ conn' = [conn EXCEPT ![p] = [state |-> "open", data |-> NoText]]
       ELSE /\ ping' = [ping EXCEPT ![p] = Exited(@, "connect_error")]
            /\ UNCHANGED conn
    /\ UNCHANGED <<ipc, socketFile, stops, emitted>>
    /\ UNCHANGED <<sessionFile, coordinators, lvars, nvars, mvars>>

\* connection.on("data"), lines 39-41: the next n pieces arrive as one chunk
Data(p, n) ==
    /\ conn[p].state = "open"
    /\ n >= 1 /\ ping[p].sent + n <= Len(ping[p].input)
    /\ conn' = [conn EXCEPT ![p].data =
                  AppendChunk(@, SubSeq(ping[p].input, ping[p].sent + 1, ping[p].sent + n))]
    /\ ping' = [ping EXCEPT ![p].sent = @ + n]
    /\ UNCHANGED <<ipc, socketFile, stops, emitted>>
    /\ UNCHANGED <<sessionFile, coordinators, lvars, nvars, mvars>>

\* connection.on("end"), lines 43-55, once everything written has arrived
connectionEnd(p, debug) ==
    /\ conn[p].state = "open"
    /\ ping[p].sent = Len(ping[p].input)
    /\ conn' = [conn EXCEPT ![p].state = "ended"]
    /\ emitted' = [emitted EXCEPT ![p] = IF Emits(conn[p].data, debug) THEN @ + 1 ELSE @]
    /\ UNCHANGED <<ipc, socketFile, stops, ping>>

\* without MATRIX_DEBUG, and with no listener of the event in this process
End(p) ==
    /\ connectionEnd(p, FALSE)
    /\ UNCHANGED <<sessionFile, coordinators, lvars, nvars, mvars>>

\* the connection breaks: connection.on("error"), lines 57-61, and
\* hook-ping's client.on("error"), lines 47-50
ConnError(p) ==
    /\ conn[p].state = "open"
    /\ conn' = [conn EXCEPT ![p].state = "error"]
    /\ ping' = [ping EXCEPT ![p] = Exited(@, "connect_error")]
    /\ UNCHANGED <<ipc, socketFile, stops, emitted>>
    /\ UNCHANGED <<sessionFile, coordinators, lvars, nvars, mvars>>

\* hook-ping's client.on("close"), lines 52-54
Close(p) ==
    /\ ping[p].pc = "written"
    /\ conn[p].state = "ended"
    /\ ping' = [ping EXCEPT ![p] = Exited(@, "closed")]
    /\ UNCHANGED <<ipc, socketFile, stops, conn, emitted>>
    /\ UNCHANGED <<sessionFile, coordinators, lvars, nvars, mvars>>

\* A coordinator that has constructed its relay; a socket file may be left
\* over at its path
RelayInit ==
    /\ coordinators = {}
    /\ sessionFile = StoreWithRooms({})
    /\ myTmuxTarget = [l \in Listeners |-> NoTarget]
    /\ ListenerFresh
    /\ MainQuiet
    /\ validTokens = {InitialToken}
    /\ joinedRooms = {}
    /\ createdRooms = 0
    /\ logins = 0
    /\ task = [h \in Handlers |-> NoTask]
    /\ notified = 0
    /\ lastCall = NoCall
    /\ ipc = NoServer
    /\ socketFile \in BOOLEAN
    /\ stops = 0
    /\ ping = [p \in Pingers |-> NoPing]
    /\ conn = [p \in Pingers |-> NoConn]
    /\ emitted = [p \in Pingers |-> 0]

RelayNext ==
    \/ \E bound \in BOOLEAN : IpcStart(bound)
    \/ IpcStop
    \/ \E p \in Pingers, configured \in BOOLEAN, input \in PingInputs :
          PingStart(p, configured, input)
    \/ \E p \in Pingers : StdinEnd(p)
    \/ \E p \in Pingers : StdinError(p)
    \/ \E p \in Pingers : Connect(p)
    \/ \E p \in Pingers : \E n \in 1..Len(ping[p].input) : Data(p, n)
    \/ \E p \in Pingers : End(p)
    \/ \E p \in Pingers : ConnError(p)
    \/ \E p \in Pingers : Close(p)

RelaySpec == RelayInit /\ [][RelayNext]_vars

----------------------------------------------------------------------------
(* Inbound listener: properties *)

\* C1 (as stated): each event id causes at most one pane write, however many
\* times it is delivered and however many other events come in between.
C1_AtMostOneWritePerEventId ==
    \A l \in Listeners, e \in EventIds : tmuxWrites[l][e] <= 1

\* C1 (amended): an event id that has been written is written again only
\* after at least DedupCapacity other ids have been added to the dedup set
\* since it was; with fewer in between, every redelivery is skipped.
C1_AtMostOneWriteWhileRemembered ==
    [][\A l \in Listeners, e \in EventIds :
          (tmuxWrites'[l][e] > tmuxWrites[l][e] /\ tmuxWrites[l][e] > 0)
              => since[l][e] >= DedupCapacity]_vars

\* A written id is delivered again, with another id accepted in between, and
\* the redelivery is skipped as a duplicate.
C1_DuplicateSkipped ==
    /\ lastEvent # NoEvent
    /\ lastEvent.at = "duplicate"
    /\ tmuxWrites[lastEvent.listener][lastEvent.id] = 1
    /\ since[lastEvent.listener][lastEvent.id] >= 1

\* C2: after every completed timeline handler the dedup set holds at most
\* DedupCapacity ids.
C2_DedupSetBounded ==
    \A l \in Listeners : Len(processedEvents[l]) <= DedupCapacity

\* The set is full and an id that was written has been evicted from it.
C2_FullAfterEviction ==
    \E l \in Listeners, e \in EventIds :
        /\ Len(processedEvents[l]) = DedupCapacity
        /\ tmuxWrites[l][e] > 0
        /\ ~InSeq(processedEvents[l], e)

\* C3: an event sent by the listener's own account is never written to a
\* pane and never recorded in the dedup set.
C3_OwnMessagesIgnored ==
    \A l \in Listeners, e \in EventIds :
        (client[l] /\ Event(e).sender = session[l].userId)
            => /\ tmuxWrites[l][e] = 0
               /\ ~InSeq(processedEvents[l], e)
               /\ \A w \in paneWrites : ~(w.listener = l /\ w.id = e)

\* The bot's own text message arrives live at a ready listener that has
\* written the human's message of the same room.
C3_OwnMessageDelivered ==
    /\ lastEvent # NoEvent
    /\ lastEvent.at = "own"
    /\ ~lastEvent.historical
    /\ Event(lastEvent.id).sender = BotUser
    /\ tmuxWrites[lastEvent.listener][<<Event(lastEvent.id).room, HumanUser, TextKind>>] > 0

\* C4: no pane write comes from an event delivered as historical or
\* delivered before the sync state reached PREPARED.
C4_NoWriteForHistoricalOrBeforeReady ==
    \A w \in paneWrites : ~w.historical /\ w.ready

\* A ready listener is handed, as historical, an event it would write if
\* the event were live, and writes nothing.
C4_HistoricalDropped ==
    /\ lastEvent # NoEvent
    /\ lastEvent.at = "historical"
    /\ syncReady[lastEvent.listener]
    /\ Outcome(lastEvent.listener, Event(lastEvent.id), FALSE).at = "written"
    /\ tmuxWrites[lastEvent.listener][lastEvent.id] = 0

\* The session key the store records for a room
KeysOfRoom(r) ==
    LET rooms == loadSession(sessionFile).value.rooms IN
    {k \in DOMAIN rooms : rooms[k] = r}

\* A listener with a target filter writes only events whose room maps to a
\* session key with that target, and only to that target.
WritesOnlyOwnTarget ==
    \A w \in paneWrites :
        myTmuxTarget[w.listener] # NoTarget
            => /\ w.target = myTmuxTarget[w.listener]
               /\ \E k \in KeysOfRoom(Event(w.id).room) :
                     getTmuxTarget(k) = myTmuxTarget[w.listener]

\* C5 (as stated): a filtered listener writes only events of its own target,
\* so with several coordinators sharing the account no event is written by
\* more than one of them.
C5_WrittenByAtMostOneCoordinator ==
    /\ WritesOnlyOwnTarget
    /\ \A w1, w2 \in paneWrites : w1.id = w2.id => w1.listener = w2.listener

\* C5 (amended): a filtered listener writes only events of its own target,
\* so no event is written by two coordinators that were both constructed
\* with a target filter, each for a different pane.
C5_FilteredCoordinatorsNeverDuplicate ==
    /\ WritesOnlyOwnTarget
    /\ \A w1, w2 \in paneWrites :
          (/\ w1.id = w2.id
           /\ myTmuxTarget[w1.listener] # NoTarget
           /\ myTmuxTarget[w2.listener] # NoTarget
           /\ myTmuxTarget[w1.listener] # myTmuxTarget[w2.listener])
              => w1.listener = w2.listener

\* Two coordinators in different panes: one has written an event, the other
\* is handed the same event and skips it as not its target.
C5_OtherCoordinatorSkips ==
    /\ lastEvent # NoEvent
    /\ lastEvent.at = "not_mine"
    /\ \E w \in paneWrites :
          /\ w.id = lastEvent.id
          /\ w.listener # lastEvent.listener
          /\ myTmuxTarget[w.listener] # NoTarget
          /\ myTmuxTarget[lastEvent.listener] # NoTarget

----------------------------------------------------------------------------
(* Outbound notifier: properties *)

\* the step in which handler h's getJoinedRooms call settles
ListingSettles(h) == task[h].pc = "joined" /\ task'[h] # task[h]

\* what C6 promises of the step: (R, true) is returned, no room is created,
\* and the saved record has currentRoom = R
ReusesRoom(h) ==
    /\ task'[h].pc = "send"
    /\ task'[h].roomId = task[h].existing
    /\ task'[h].isExisting
    /\ task'[h].created = 0
    /\ createdRooms' = createdRooms
    /\ sessionFile'.kind = "json"
    /\ sessionFile'.rec.currentRoom = task[h].existing

\* C6 as stated: whenever the store had rooms[K] = R and R is in the
\* service's joined-room list, getSessionRoom for K returns (R, true), makes
\* no room-creation call and persists currentRoom = R.
C6_JoinedRoomAlwaysReused ==
    [][\A h \in Handlers :
          (ListingSettles(h) /\ task[h].existing \in joinedRooms) => ReusesRoom(h)]_vars

\* C6, amended: the same, when the joined-room listing call itself succeeds
\* (a listing that fails is swallowed and a replacement room is created).
C6_ListedRoomReused ==
    [][\A h \in Handlers :
          (ListingSettles(h) /\ task[h].existing \in joinedRooms
                             /\ task'[h].listed # "error") => ReusesRoom(h)]_vars

C6_RoomReused ==
    \E h \in Handlers :
        /\ task[h].pc = "send" /\ task[h].listed = "has" /\ task[h].isExisting
        /\ task[h].created = 0
        /\ sessionFile.rec.currentRoom = task[h].roomId

\* C7: when the store had rooms[K] = R and R is not in the joined-room list,
\* getSessionRoom for K creates one room and returns its id, which is new and
\* differs from R, with isExisting = false, and the store then has
\* rooms[K] = the new id.
C7_StaleRoomReplaced ==
    [][\A h \in Handlers :
          (/\ task[h].pc = "create"
           /\ task[h].existing # Null
           /\ task[h].existing \notin joinedRooms
           /\ task'[h].pc = "send")
          => /\ task'[h].roomId # task[h].existing
             /\ task'[h].roomId \notin joinedRooms
             /\ task'[h].roomId \in joinedRooms'
             /\ ~task'[h].isExisting
             /\ task'[h].created = 1
             /\ createdRooms' = createdRooms + 1
             /\ sessionFile'.kind = "json"
             /\ task[h].key \in DOMAIN sessionFile'.rec.rooms
             /\ sessionFile'.rec.rooms[task[h].key] = task'[h].roomId]_vars

C7_RoomReplaced ==
    \E h \in Handlers :
        /\ task[h].pc = "send" /\ task[h].listed = "lacks" /\ ~task[h].isExisting
        /\ task[h].existing = InitialRoom /\ task[h].roomId # InitialRoom
        /\ task[h].key \in DOMAIN sessionFile.rec.rooms
        /\ sessionFile.rec.rooms[task[h].key] = task[h].roomId

\* C8: no operation removes a session key from the store's rooms map: every
\* key in rooms before a step is in rooms after it.
C8_KeysNeverRemoved ==
    [][\A k \in DOMAIN sessionFile.rec.rooms : k \in DOMAIN sessionFile'.rec.rooms]_vars

\* C9: two notifications for the same key that both found no mapping for it
\* (issued concurrently) make one room-creation call between them and send
\* to the same room.
C9_ConcurrentNotificationsShareRoom ==
    \A h1, h2 \in Handlers :
        (/\ h1 # h2
         /\ task[h1].pc = "send" /\ task[h2].pc = "send"
         /\ task[h1].key # NoKey /\ task[h1].key = task[h2].key
         /\ task[h1].existing = Null /\ task[h2].existing = Null)
        => /\ task[h1].roomId = task[h2].roomId
           /\ task[h1].created + task[h2].created <= 1

\* C10: loadSession never throws: no notifier call is rejected with the
\* parse error of the session file.
C10_LoadSessionNeverThrows ==
    \A h \in Handlers : ~(task[h].pc = "failed" /\ task[h].error = "SyntaxError")

\* the step in which handler h's createRoom call settles with an error
CreationFails(h) ==
    task[h].pc = "create" /\ task'[h] # task[h] /\ createdRooms' = createdRooms

\* the step in which handler h's getJoinedRooms call settles with an error
ListingFails(h) == ListingSettles(h) /\ task'[h].listed = "error"

\* the error reaches getSessionRoom's caller and the store is as it was
Propagates(h) == task'[h].pc = "failed" /\ sessionFile' = sessionFile

\* C11 as stated: an error of the joined-room listing or of the room
\* creation reaches getSessionRoom's caller, with no recovery and the store
\* unchanged.
C11_ResolutionErrorsPropagate ==
    [][\A h \in Handlers : (ListingFails(h) \/ CreationFails(h)) => Propagates(h)]_vars

\* C11, amended: an error of the room creation reaches getSessionRoom's
\* caller, with no retry and the store, the rooms and the joined list
\* unchanged (an error of the listing is swallowed and a room is created).
C11_CreationErrorPropagates ==
    [][\A h \in Handlers :
          CreationFails(h) => /\ Propagates(h)
                              /\ task'[h].error = "CreateRoomError"
                              /\ joinedRooms' = joinedRooms]_vars

C11_CreationFailed ==
    \E h \in Handlers : task[h].pc = "failed" /\ task[h].error = "CreateRoomError"

----------------------------------------------------------------------------
(* Hook handler and exported calls: properties *)

\* C12 as stated: a setTyping call made when the store has no currentRoom
\* completes without error and issues no call to the messaging service: the
\* call is over as soon as it is made.
C12_NoRoomTypingIssuesNoCall ==
    \A h \in Handlers :
        (lastCall.api = "setTyping" /\ lastCall.handler = h /\ lastCall.store = "no_room")
        => task[h].pc = "done"

\* C12, amended: a setTyping call whose getClient() succeeded (by whoami or
\* by a fresh login) and which then finds no currentRoom in the store
\* returns without error and without a sendTyping call.
C12_NoRoomTypingSkipsIndicator ==
    [][\A h \in Handlers :
          (/\ task[h].stage = "typing"
           /\ task[h].pc \in {"whoami", "login"}
           /\ task'[h].pc \notin {"whoami", "login", "failed"}
           /\ sessionFile'.rec.currentRoom = Null)
          => task'[h] = Returned]_vars

C12_NoRoomTypingSkipped ==
    \E h \in Handlers :
        /\ lastCall.api = "setTyping" /\ lastCall.handler = h /\ lastCall.store = "no_room"
        /\ sessionFile.rec.currentRoom = Null
        /\ task[h].pc = "done"

\* the step in which handler h's sendTextMessage call settles without error
MessageSent(h) == task[h].pc = "send" /\ task'[h] # task[h] /\ task'[h].pc # "failed"

\* C13: after the message is sent the typing indicator is set to true for
\* session_start and tool_use, to false for question, stop and permission,
\* and no typing update is started for any other type; the value passed to
\* sendTyping is the one of the notification's type.
C13_TypingFollowsType ==
    [][\A h \in Handlers :
          /\ MessageSent(h) =>
                /\ task[h].type \in {"session_start", "tool_use"}
                      => task'[h].stage = "typing" /\ task'[h].typing = "true"
                /\ task[h].type \in {"question", "stop", "permission"}
                      => task'[h].stage = "typing" /\ task'[h].typing = "false"
                /\ task[h].type \notin {"session_start", "tool_use", "question", "stop",
                                        "permission"}
                      => task'[h] = Returned
          /\ (task'[h].pc = "typing" /\ task'[h].type # Null) =>
                task'[h].typing = IF task'[h].type \in {"session_start", "tool_use"}
                                  THEN "true" ELSE "false"]_vars

C13_TypingStarted ==
    \E h \in Handlers :
        task[h].pc = "typing" /\ task[h].type = "tool_use" /\ task[h].typing = "true"

\* the step in which handler h handles a hook payload
HookHandled(h) ==
    notified' = notified + 1 /\ lastCall'.api = "hook" /\ lastCall'.handler = h

KnownEvents == {"SessionStart", "PreToolUse", "Stop", "Notification"}

\* C18: handling a payload whose event name is not SessionStart, PreToolUse,
\* Stop or Notification makes no notifier call and leaves the store, the
\* rooms and the homeserver as they were.
C18_UnknownEventDropped ==
    [][\A h \in Handlers :
          (HookHandled(h) /\ lastCall'.event \notin KnownEvents)
          => /\ task'[h] = NoTask
             /\ UNCHANGED <<sessionFile, validTokens, joinedRooms, createdRooms, logins>>]_vars

C18_UnknownEventHandled ==
    \E h \in Handlers :
        /\ lastCall.api = "hook" /\ lastCall.handler = h
        /\ lastCall.event = "SubagentStop"
        /\ task[h] = NoTask

\* C19: while a PreToolUse hook is being handled, a permission notification
\* is in progress when the tool is Bash, Edit or Write, and a question
\* notification when it is AskUserQuestion.
C19_PreToolUseNotifies ==
    \A h \in Handlers :
        (/\ lastCall.api = "hook" /\ lastCall.handler = h
         /\ lastCall.event = "PreToolUse"
         /\ lastCall.store # "corrupt"
         /\ task[h].pc \notin {"done", "failed"})
        => /\ lastCall.tool \in {"Bash", "Edit", "Write"} => task[h].type = "permission"
           /\ lastCall.tool = "AskUserQuestion" => task[h].type = "question"

----------------------------------------------------------------------------
(* Event relay and hook client: properties *)

C16_HookPingExitsZero ==
    \A p \in Pingers : ping[p].pc = "exited" => ping[p].exit = 0

C16_ExitedWhenUnreachable ==
    \E p, q \in Pingers :
        /\ ping[p].pc = "exited" /\ ping[p].why = "connect_error" /\ ping[p].exit = 0
        /\ ping[q].pc = "exited" /\ ping[q].why = "closed" /\ ping[q].exit = 0

----------------------------------------------------------------------------
(* Listener life cycle and commands: properties *)

\* C17: a listener whose start() found no credential in the store has
\* returned false, has no client and has received nothing: it is not ready,
\* has recorded no event and has written to no pane; the coordinator has
\* spawned the wrapped program all the same, and stop() has stopped no client.
C17_NoCredentialNoListener ==
    \A l \in Listeners :
        (life[l].start # "none" /\ ~life[l].hadCredential)
        => /\ life[l].start = "false"
           /\ ~client[l]
           /\ ~syncReady[l]
           /\ processedEvents[l] = << >>
           /\ \A w \in paneWrites : w.listener # l
           /\ lastEvent.listener # l
           /\ life[l].spawned
           /\ life[l].stopClientCalls = 0

C17_StoppedWithoutClient ==
    \E l \in Listeners :
        /\ life[l].start = "false" /\ ~life[l].hadCredential
        /\ life[l].spawned /\ life[l].stopped /\ life[l].stopClientCalls = 0

\* the message bodies the documentation lists as commands
RecognizedCommands == {"/help", "/lines 5"}

\* C20: no pane write carries a message that is a recognized command.
C20_CommandsNotInjected ==
    \A w \in paneWrites : Event(w.id).body \notin RecognizedCommands

----------------------------------------------------------------------------
(* matrix-bridge: session keys (KeySpec) *)

\* getSessionKey() calls in one behaviour
MaxKeyCalls == 2

\* What os.hostname() returns
Hosts == {"host", "other"}

\* What getTmuxPane() returns: "session:window.pane", or null outside tmux.
\* tmux keeps ":" and "." out of session names and nothing else, so a
\* session may be named "/srv".
PaneSrv == <<"/srv", "0.1">>
PaneLocators == {Pane1, Pane2, PaneSrv}

\* Working directories, as the sequence of their ":"-separated parts: two
\* without ":", the directories "/srv:0.1" and "/home/u/a:b", and no
\* directory at all
CwdProj == <<"/home/u/proj">>
CwdSrv == <<"/srv">>
CwdSrvColon == <<"/srv", "0.1">>
CwdColon == <<"/home/u/a", "b">>
Cwds == {CwdProj, CwdSrv, CwdSrvColon, CwdColon}

\* the template `${host}:${x}` on ":"-separated parts
Template(host, x) == <<host>> \o x

getSessionKey_WithCwd(host, pane, cwd) ==
    IF pane # NoTarget THEN Template(host, pane) \o cwd
    ELSE IF cwd # NoText THEN Template(host, cwd)
    ELSE Template(host, <<"default">>)

\* getSessionKey(cwd), with what getHostname() and getTmuxPane() returned
getSessionKey(host, pane, cwd) ==
    IF pane # NoTarget THEN Template(host, pane)
    ELSE IF cwd # NoText THEN Template(host, cwd)
    ELSE Template(host, <<"default">>)

\* One getSessionKey(cwd) call on a machine `host`, in the pane `pane` or
\* outside tmux
GetSessionKey(host, pane, cwd) ==
    /\ Len(keyCalls) < MaxKeyCalls
    /\ keyCalls' = Append(keyCalls, [host |-> host, pane |-> pane, cwd |-> cwd,
                                     key |-> getSessionKey(host, pane, cwd)])
    /\ UNCHANGED <<sessionFile, coordinators, lvars, nvars, rvars, proc, rendered, hvars>>

KeyInit == Constructed({}, {AbsentFile})

KeyNext ==
    \E host \in Hosts, pane \in PaneLocators \cup {NoTarget}, cwd \in Cwds \cup {NoText} :
        GetSessionKey(host, pane, cwd)

KeySpec == KeyInit /\ [][KeyNext]_vars

\* C21: the key is a function of (host, pane, cwd); with a pane it is the
\* same for every working directory, without one it depends on (host, cwd)
\* only.
C21_KeyIsFunctionOfEnvironment ==
    \A i, j \in DOMAIN keyCalls :
        LET a == keyCalls[i]
            b == keyCalls[j]
        IN
        /\ (a.host = b.host /\ a.pane = b.pane /\ a.cwd = b.cwd) => a.key = b.key
        /\ (a.pane # NoTarget /\ a.host = b.host /\ a.pane = b.pane) => a.key = b.key
        /\ (a.pane = NoTarget /\ b.pane = NoTarget /\ a.host = b.host /\ a.cwd = b.cwd)
              => a.key = b.key

\* Two calls in one pane from different working directories, and two calls
\* outside tmux from one directory
C21_SamePaneOtherDirectory ==
    \E i, j \in DOMAIN keyCalls :
        /\ i # j
        /\ keyCalls[i].pane # NoTarget
        /\ keyCalls[i].host = keyCalls[j].host
        /\ keyCalls[i].pane = keyCalls[j].pane
        /\ keyCalls[i].cwd # keyCalls[j].cwd
        /\ keyCalls[i].key = keyCalls[j].key

\* C22 (as stated): distinct (hostname, pane) pairs have distinct keys, and
\* a key built from a pane never equals a directory-fallback key.
C22_KeysNeverCollide ==
    \A i, j \in DOMAIN keyCalls :
        LET a == keyCalls[i]
            b == keyCalls[j]
        IN
        /\ (a.pane # NoTarget /\ b.pane # NoTarget
              /\ <<a.host, a.pane>> # <<b.host, b.pane>>) => a.key # b.key
        /\ (a.pane # NoTarget /\ b.pane = NoTarget /\ b.cwd # NoText) => a.key # b.key

\* C23 (as stated): getTmuxTarget gives back the pane a key was built from,
\* and null for every directory-fallback key.
C23_TargetInvertsKey ==
    \A i \in DOMAIN keyCalls :
        LET a == keyCalls[i] IN
        /\ a.pane # NoTarget => getTmuxTarget(a.key) = a.pane
        /\ (a.pane = NoTarget /\ a.cwd # NoText) => getTmuxTarget(a.key) = NoTarget

----------------------------------------------------------------------------
(* Authentication recovery: properties *)

\* the step in which handler h's whoami call is rejected
TokenRejected(h) ==
    task[h].pc = "whoami" /\ task'[h] # task[h] /\ task[h].token \notin validTokens

\* the step in which handler h's login call settles
LoginSettles(h) == task[h].pc = "login" /\ task'[h] # task[h]

\* C24: a rejected token leads to one password login; when the login fails
\* nothing is retried or saved, getClient's caller fails with the login's
\* error and the hook handler, which catches it, is free for the next hook.
C24_OneLoginThenPropagates ==
    [][\A h \in Handlers :
          /\ TokenRejected(h) => task'[h].pc = "login" /\ logins' = logins
          /\ LoginSettles(h) =>
                \/ /\ logins' = logins + 1
                   /\ task'[h].pc \notin {"whoami", "login", "failed"}
                \/ /\ logins' = logins
                   /\ sessionFile' = sessionFile
                   /\ task'[h].pc = "failed"
                   /\ task'[h].error = "LoginFailed"]_vars

\* a hook's notification ended with the login's error
C24_HookLoginFailed ==
    \E h \in Handlers :
        /\ lastCall.api = "hook"
        /\ lastCall.handler = h
        /\ task[h].pc = "failed"
        /\ task[h].error = "LoginFailed"

----------------------------------------------------------------------------
(* claude-matrix: main, the wrapped program and the exit paths (MainSpec) *)

TheListener == "L1"

\* the signals main forwards, and one it cannot catch
ForwardedSignals == {"SIGINT", "SIGTERM"}
Signals == ForwardedSignals \cup {"SIGKILL"}

\* exit codes of the wrapped program
ExitCodes == {0, 1, 2}

\* line 510: code || 0
OrZero(code) == IF code = NoCode \/ code = 0 THEN 0 ELSE code

\* cleanup(), lines 500-503
cleanup_RelayOnly(l) ==
    /\ ipcServerStop
    /\ UNCHANGED <<sessionFile, coordinators, lvars>>

cleanup(l) ==
    /\ ipcServerStop
    /\ listenerStop(l)

\* process.exit(status)
Exit(why, code, signal, status) ==
    proc' = [proc EXCEPT !.pc = "exited", !.child = "gone", !.why = why,
                         !.code = code, !.signal = signal, !.exit = status]

\* main from `await listener.start()` to the end, lines 474-531: the
\* listener is started, the program is spawned (or fails to: spawn() then
\* returns a child that emits "error") and the handlers are registered
onHook_NotRegistered(registered) == registered

\* ipcServer.on("hook", ...), lines 482-484
onHook(registered) == TRUE

launched(l, spawned) ==
    /\ listenerStart(l)
    /\ proc' = [proc EXCEPT !.pc = "running",
                            !.handler = onHook(@),
                            !.child = IF spawned THEN "running" ELSE "unstarted"]

Launch(l, spawned) ==
    /\ proc.pc = "main"
    /\ ipc.started
    /\ launched(l, spawned)
    /\ UNCHANGED <<nvars, rvars, keyCalls, rendered, hvars>>

\* process.on("SIGINT" / "SIGTERM"), lines 520-526: child.kill(sig), which
\* sends nothing when there is no child process
Signal(sig) ==
    /\ proc.pc = "running"
    /\ proc' = [proc EXCEPT !.forwarded =
                   IF proc.child = "running" THEN @ \cup {sig} ELSE @]
    /\ UNCHANGED <<sessionFile, coordinators, lvars, nvars, rvars, keyCalls, rendered, hvars>>

\* child.on("exit"), lines 505-511, when the program exits by itself
ChildExits(l, code) ==
    /\ proc.pc = "running"
    /\ proc.child = "running"
    /\ cleanup(l)
    /\ Exit("exit", code, Null, OrZero(code))
    /\ UNCHANGED <<nvars, keyCalls, rendered, hvars>>

\* child.on("exit"), lines 505-511, when a signal terminated the program:
\* one the coordinator forwarded, or a SIGKILL sent to it
ChildKilled(l, sig) ==
    /\ proc.pc = "running"
    /\ proc.child = "running"
    /\ sig \in proc.forwarded \cup {"SIGKILL"}
    /\ cleanup(l)
    /\ Exit("exit", NoCode, sig, OrZero(NoCode))
    /\ UNCHANGED <<nvars, keyCalls, rendered, hvars>>

\* child.on("error"), lines 513-517
SpawnError(l) ==
    /\ proc.pc = "running"
    /\ proc.child = "unstarted"
    /\ cleanup(l)
    /\ Exit("error", NoCode, Null, 1)
    /\ UNCHANGED <<nvars, keyCalls, rendered, hvars>>

\* the 10 s timer of lines 529-531, which main sets after the spawn
Tick(l) == proc.pc = "running" /\ refreshRoomMapping(l)

\* main has passed its upfront getClient(): the store holds the credential
\* and the rooms of earlier sessions, unless it was removed since
MainInit ==
    Constructed({TheListener},
                {AbsentFile, StoreWithRooms({}), StoreWithRooms({KeyPane1, KeyDir})})

MainNext ==
    \/ \E bound \in BOOLEAN : IpcStart(bound)
    \/ \E spawned \in BOOLEAN : Launch(TheListener, spawned)
    \/ \E state \in SyncStates : Sync(TheListener, state)
    \/ Tick(TheListener)
    \/ RoomRecorded(KeyPane2)
    \/ \E sig \in ForwardedSignals : Signal(sig)
    \/ \E code \in ExitCodes : ChildExits(TheListener, code)
    \/ \E sig \in Signals : ChildKilled(TheListener, sig)
    \/ SpawnError(TheListener)

MainSpec == MainInit /\ [][MainNext]_vars

\* C25: when the coordinator has exited after the spawn, by the child's
\* exit, a spawn error or a forwarded SIGINT / SIGTERM, the relay's stop()
\* and the listener's stop() have both been called.
C25_CleanupBeforeExit ==
    proc.pc = "exited" =>
        /\ stops >= 1
        /\ ~ipc.listening
        /\ \A l \in coordinators : life[l].stopped

\* the coordinator exited after forwarding SIGTERM to the program
C25_ExitedAfterSignal ==
    /\ proc.pc = "exited"
    /\ proc.signal = "SIGTERM"
    /\ "SIGTERM" \in proc.forwarded
    /\ life[TheListener].stopClientCalls = 1

\* C26 (as stated): the exit status is the child's exit code when it exited
\* with one, and non-zero when it failed to spawn or a signal terminated it.
C26_ExitStatusMirrorsChild ==
    proc.pc = "exited" =>
        /\ (proc.why = "exit" /\ proc.code # NoCode) => proc.exit = proc.code
        /\ proc.why = "error" => proc.exit # 0
        /\ (proc.why = "exit" /\ proc.signal # Null) => proc.exit # 0

----------------------------------------------------------------------------
(* matrix-bridge: the text of a question notification (QuestionSpec) *)

\* questions in one AskUserQuestion call, and options in one question
MaxQuestions == 2
MaxOptions == 2

SeqsUpTo(S, n) == UNION {[1..m -> S] : m \in 0..n}

OptA == [label |-> "A", description |-> "first"]
OptB == [label |-> "B", description |-> "second"]
OptC == [label |-> "C", description |-> "third"]
OptD == [label |-> "D", description |-> "fourth"]
OptionPool == <<OptA, OptB, OptC, OptD>>

Reversed(seq) == [n \in 1..Len(seq) |-> seq[Len(seq) + 1 - n]]

\* q.options: the first options of the pool, in its order or reversed
OptionLists ==
    LET firsts == {SubSeq(OptionPool, 1, n) : n \in 0..MaxOptions}
    IN  firsts \cup {Reversed(o) : o \in firsts}

\* q.header, which may be missing
Headers == {"Pick one", Null}

\* a question with an options array (which may be empty) or without one
QuestionValues ==
    {[header |-> h, question |-> "A or B?", hasOptions |-> TRUE, options |-> o] :
        h \in Headers, o \in OptionLists}
    \cup {[header |-> h, question |-> "A or B?", hasOptions |-> FALSE, options |-> << >>] :
            h \in Headers}

\* tool_input.questions; undefined and [] take the same branch
QuestionLists == SeqsUpTo(QuestionValues, MaxQuestions)

\* the `message` argument, which the hook handler does not pass
Messages == {"Which one?", Null}

\* A text is the sequence of its lines.
\* line 606, i being forEach's index, from 0
OptionNumber_FromZero(i) == i

OptionNumber(i) == i + 1

OptionLine(opt, i) ==
    "  " \o ToString(OptionNumber(i)) \o ". " \o opt.label \o " - " \o opt.description

OptionLines(options) == [n \in 1..Len(options) |-> OptionLine(options[n], n - 1)]

\* line 602: q.header || "Question"
HeaderOf(q) == IF q.header # Null THEN q.header ELSE "Question"

QuestionLine(q) == "**" \o HeaderOf(q) \o ":** " \o q.question

\* lines 602-610: one question's block, closed by an empty line
Block(q) ==
    <<QuestionLine(q)>>
    \o (IF q.hasOptions THEN <<"Options:">> \o OptionLines(q.options) ELSE << >>)
    \o <<"">>

RECURSIVE Blocks(_)
Blocks(qs) == IF qs = << >> THEN << >> ELSE Block(Head(qs)) \o Blocks(Tail(qs))

\* line 599
QuestionTitle == <<"**Claude is asking:**", "">>

\* case "question", lines 598-616
QuestionText(questions, message) ==
    QuestionTitle
    \o (IF Len(questions) > 0 THEN Blocks(questions)
        ELSE <<IF message # Null THEN message ELSE "(no question text)">>)

\* sendClaudeNotification({type: "question", questions, message}) up to the
\* end of its switch
Question(questions, message) ==
    /\ ~rendered.done
    /\ rendered' = [done |-> TRUE, questions |-> questions, message |-> message,
                    text |-> QuestionText(questions, message),
                    typing |-> TypingOf("question")]
    /\ UNCHANGED <<sessionFile, coordinators, lvars, nvars, rvars, keyCalls, proc, hvars>>

QuestionInit == Constructed({}, {AbsentFile})

QuestionNext ==
    \E questions \in QuestionLists, message \in Messages : Question(questions, message)

QuestionSpec == QuestionInit /\ [][QuestionNext]_vars

\* lines of the block of question q
BlockLen(q) == 2 + IF q.hasOptions THEN 1 + Len(q.options) ELSE 0

\* the line at which the block of the k-th question starts
RECURSIVE BlockStart(_, _)
BlockStart(qs, k) ==
    IF k = 1 THEN Len(QuestionTitle) + 1
    ELSE BlockStart(qs, k - 1) + BlockLen(qs[k - 1])

\* C27: a question notification renders, for each question in order, one
\* block: the line with its header and prompt, then its options as
\* "index. label - description" numbered from 1 in list order; typing is set
\* to false; with no questions the text is the raw message.
C27_QuestionBlocksInOrder ==
    rendered.done =>
        LET qs == rendered.questions
            text == rendered.text
        IN
        /\ rendered.typing = "false"
        /\ qs # << >> =>
              /\ Len(text) = BlockStart(qs, Len(qs)) + BlockLen(qs[Len(qs)]) - 1
              /\ \A k \in DOMAIN qs :
                    LET q == qs[k]
                        at == BlockStart(qs, k)
                    IN
                    /\ q.header # Null =>
                          text[at] = "**" \o q.header \o ":** " \o q.question
                    /\ \A n \in DOMAIN q.options :
                          text[at + 1 + n] =
                             "  " \o ToString(n) \o ". " \o q.options[n].label
                                  \o " - " \o q.options[n].description
        /\ (qs = << >> /\ rendered.message # Null) =>
              text = QuestionTitle \o <<rendered.message>>

\* the question "Pick one: A or B?" with options A and B was rendered
C27_TwoOptionsRendered ==
    /\ rendered.done
    /\ rendered.questions =
          <<[header |-> "Pick one", question |-> "A or B?", hasOptions |-> TRUE,
             options |-> <<OptA, OptB>>]>>
    /\ \E n \in DOMAIN rendered.text : rendered.text[n] = "  1. A - first"
    /\ \E n \in DOMAIN rendered.text : rendered.text[n] = "  2. B - second"

----------------------------------------------------------------------------
(* matrix-listener: refreshes, failing pane writes and stop (DeliverySpec) *)

\* sendToTmux, lines 72-90: execSync throws when tmux fails, and the catch
\* turns that into the result false
sendToTmux_Throws(target, ok) == [returned |-> FALSE, threw |-> ~ok]

sendToTmux(target, ok) == [returned |-> ok, threw |-> FALSE]

\* The human's text message in the room of the session that is there from
\* the start, in the room of the one created later, and in a room of the
\* account no session maps to
DeliveryEventIds == {<<r, HumanUser, TextKind>> : r \in {"!r1", "!r2", "!r4"}}

\* the Room.timeline handler, with tmux accepting the keys or not
Deliver(l, id, toStartOfTimeline, ok) ==
    /\ onRoomTimeline(l, id, toStartOfTimeline)
    /\ LET out == Outcome(l, Event(id), toStartOfTimeline)
           sent == sendToTmux(out.target, ok)
       IN
       writeFailures' =
          IF out.at = "written" /\ ~sent.returned
          THEN writeFailures \cup {[listener |-> l, id |-> id, propagated |-> sent.threw]}
          ELSE writeFailures
    /\ UNCHANGED <<nvars, rvars, keyCalls, proc, rendered, fresh, sentRoom>>

\* the coordinator's timer calls refreshRoomMapping()
Refresh(l) ==
    /\ roomMappingRefreshed(l)
    /\ fresh' = TRUE
    /\ UNCHANGED <<nvars, rvars, keyCalls, proc, rendered, writeFailures, sentRoom>>

\* a session starts in another pane and its room is recorded in the store
SessionCreated(k) ==
    /\ roomSaved(k)
    /\ fresh' = FALSE
    /\ UNCHANGED <<nvars, rvars, keyCalls, proc, rendered, writeFailures, sentRoom>>

DeliveryInit ==
    Constructed({TheListener}, {StoreWithRooms({}), StoreWithRooms({KeyPane1})})

DeliveryNext ==
    \/ Start(TheListener)
    \/ \E state \in SyncStates : Sync(TheListener, state)
    \/ \E id \in DeliveryEventIds, h \in BOOLEAN, ok \in BOOLEAN :
          Deliver(TheListener, id, h, ok)
    \/ Refresh(TheListener)
    \/ SessionCreated(KeyPane2)
    \/ Stop(TheListener)

DeliverySpec == DeliveryInit /\ [][DeliveryNext]_vars

\* index is the inverse of the rooms map
IsInverse(index, rooms) ==
    /\ DOMAIN index = {rooms[k] : k \in DOMAIN rooms}
    /\ \A k \in DOMAIN rooms : index[rooms[k]] = k

\* the step in which listener l's handler runs for a live delivery of id
LiveDelivery(l, id) ==
    /\ delivered' = delivered + 1
    /\ lastEvent'.listener = l
    /\ lastEvent'.id = id
    /\ ~lastEvent'.historical

\* C28: when refreshRoomMapping() has run since the store's rooms map last
\* changed, the listener's reverse index is exactly the inverse of that map,
\* and a ready listener whose target filter is K's target or unset writes a
\* new text event in K's room to K's target.
C28_RefreshedIndexDelivers ==
    [][LET l == TheListener IN
       /\ fresh' => IsInverse(roomToSession'[l], loadSession(sessionFile').value.rooms)
       /\ \A id \in DeliveryEventIds, k \in SessionKeys :
             LET rooms == loadSession(sessionFile).value.rooms IN
             ( /\ fresh
               /\ LiveDelivery(l, id)
               /\ k \in DOMAIN rooms
               /\ rooms[k] = id[1]
               /\ syncReady[l]
               /\ ~InSeq(processedEvents[l], id)
               /\ getTmuxTarget(k) # NoTarget
               /\ myTmuxTarget[l] \in {NoTarget, getTmuxTarget(k)} )
             => /\ lastEvent'.at = "written"
                /\ tmuxWrites'[l][id] = tmuxWrites[l][id] + 1
                /\ \E w \in paneWrites' :
                      w.listener = l /\ w.id = id /\ w.target = getTmuxTarget(k)]_vars

\* a message was written to the pane of a session whose room the store did
\* not hold when the listener started
C28_WrittenToLaterSession ==
    /\ fresh
    /\ client[TheListener]
    /\ KeyPane2 \notin DOMAIN session[TheListener].rooms
    /\ \E w \in paneWrites : w.listener = TheListener /\ w.target = Pane2

C30_FailedWriteNeverRetried ==
    \A f \in writeFailures :
        /\ ~f.propagated
        /\ tmuxWrites[f.listener][f.id] <= 1

\* C30 (amended): a failed pane write is not propagated: the handler has
\* recorded the id and the listener is as ready as before; a redelivery is
\* rejected as a duplicate while the id is in the dedup set, and a second
\* write is attempted only after DedupCapacity other ids were added since.
C30_FailedWriteNotRetriedWhileRemembered ==
    [][/\ \A f \in writeFailures' : ~f.propagated
       /\ \A f \in writeFailures' \ writeFailures :
             /\ lastEvent'.at = "written"
             /\ InSeq(processedEvents'[f.listener], f.id)
             /\ syncReady'[f.listener] = syncReady[f.listener]
       /\ \A f \in writeFailures :
             /\ (LiveDelivery(f.listener, f.id) /\ syncReady[f.listener]
                   /\ InSeq(processedEvents[f.listener], f.id))
                  => lastEvent'.at = "duplicate"
             /\ tmuxWrites'[f.listener][f.id] > tmuxWrites[f.listener][f.id]
                  => since[f.listener][f.id] >= DedupCapacity]_vars

\* after a failed write, a later event with another id was written
C30_WrittenAfterFailure ==
    /\ lastEvent # NoEvent
    /\ lastEvent.at = "written"
    /\ \E f \in writeFailures :
          /\ f.listener = lastEvent.listener
          /\ f.id # lastEvent.id
          /\ tmuxWrites[f.listener][f.id] = 1

----------------------------------------------------------------------------
(* Dedup set: eviction order *)

\* C31: the dedup set changes only by the insertion of an id it does not
\* hold; below capacity the id is added after the others, at capacity the
\* oldest-inserted id is dropped and the others keep their order, so the set
\* holds the min(n, capacity) most recently inserted ids.
C31_EvictionIsFIFO ==
    [][\A l \in Listeners :
          processedEvents'[l] # processedEvents[l] =>
             LET old == processedEvents[l]
                 id == lastEvent'.id
             IN
             /\ lastEvent'.listener = l
             /\ ~InSeq(old, id)
             /\ processedEvents'[l] =
                   IF Len(old) < DedupCapacity THEN Append(old, id)
                   ELSE Append(Tail(old), id)]_vars

\* the set is full, holds the last id delivered as its newest, and an id
\* that was written earlier is no longer in it
C31_OldestEvicted ==
    /\ lastEvent # NoEvent
    /\ LET set == processedEvents[lastEvent.listener] IN
       /\ Len(set) = DedupCapacity
       /\ set[DedupCapacity] = lastEvent.id
       /\ \E e \in DeliveryEventIds :
             tmuxWrites[lastEvent.listener][e] > 0 /\ ~InSeq(set, e)

----------------------------------------------------------------------------
(* Order of the send and the typing update *)

\* handler h's notification is between its first await and its send
Resolving(h) ==
    task[h].stage = "notify" /\ task[h].pc \in {"whoami", "login", "joined", "create", "send"}

\* C32: sendTyping is only ever awaited in the typing stage, and a
\* notification enters that stage only in the step in which its send
\* settles without error; when getClient, the room resolution or the send
\* fails, the call is over and no typing call is made for it.
C32_TypingOnlyAfterSend ==
    [][\A h \in Handlers :
          /\ task'[h].pc = "typing" => task'[h].stage = "typing"
          /\ (Resolving(h) /\ task'[h] # task[h]) =>
                \/ Resolving(h)' /\ task'[h].type = task[h].type
                \/ task'[h].pc = "failed" /\ task[h].pc # "typing"
                \/ /\ task[h].pc = "send"
                   /\ task[h].typing = "null"
                   /\ task'[h].pc = "done"
                \/ /\ task[h].pc = "send"
                   /\ task[h].typing # "null"
                   /\ task'[h].stage = "typing"
                   /\ task'[h].typing = task[h].typing]_vars

\* the typing call of a stop notification is in flight
C32_TypingAfterStopSent ==
    \E h \in Handlers :
        /\ task[h].pc = "typing"
        /\ task[h].type = "stop"
        /\ task[h].typing = "false"

----------------------------------------------------------------------------
(* Anonymous room resolution *)

\* the step in which the createRoom call of handler h's getSessionRoom
\* without a session key settles and the call returns
AnonymousResolved(h) ==
    task[h].pc = "create" /\ task[h].key = NoKey /\ task'[h].pc = "send"

\* what an anonymous getSessionRoom returns and saves, but for the rooms map
AnonymousRoomCreated(h) ==
    /\ task[h].existing = Null
    /\ createdRooms' = createdRooms + 1
    /\ task'[h].roomId \notin joinedRooms
    /\ task'[h].roomId \in joinedRooms'
    /\ ~task'[h].isExisting
    /\ sessionFile'.kind = "json"
    /\ sessionFile'.rec.currentRoom = task'[h].roomId

\* C33 (as stated): an anonymous getSessionRoom creates a room, returns it
\* with isExisting = false, sets currentRoom to it and leaves every entry of
\* the store's rooms map as it was.
C33_AnonymousLeavesRoomsUnchanged ==
    [][\A h \in Handlers :
          AnonymousResolved(h) =>
             /\ AnonymousRoomCreated(h)
             /\ sessionFile'.rec.rooms = loadSession(sessionFile).value.rooms]_vars

----------------------------------------------------------------------------
(* Inbound listener: events dropped after the dedup set was updated *)

\* the step in which listener l's handler runs for a delivery of id
Handled(l, id) ==
    /\ delivered' = delivered + 1
    /\ lastEvent'.listener = l
    /\ lastEvent'.id = id

\* C37: a delivery that passes the live, ready, text-message and non-self
\* filters and is then dropped because its room is unmapped, its target is
\* null or its target is not this coordinator's adds the event id to the
\* dedup set; a redelivery of an id that is in the dedup set writes to no
\* pane, also after a refresh has made the room known; a delivery rejected
\* by one of the first four filters leaves the dedup set as it was.
C37_DroppedEventsAreRecorded ==
    [][\A l \in Listeners, e \in EventIds :
          Handled(l, e) =>
             /\ lastEvent'.at \in {"unmapped", "no_target", "not_mine"} =>
                   /\ InSeq(processedEvents'[l], e)
                   /\ tmuxWrites' = tmuxWrites
             /\ InSeq(processedEvents[l], e) =>
                   /\ tmuxWrites' = tmuxWrites
                   /\ paneWrites' = paneWrites
             /\ lastEvent'.at \in {"historical", "not_ready", "not_text", "own"} =>
                   processedEvents' = processedEvents]_vars

\* A live text message of the human was recorded without being written, its
\* room has since become known to the listener with this coordinator's pane
\* as target, and its redelivery is skipped as a duplicate.
C37_KnownRoomRedeliverySkipped ==
    /\ lastEvent # NoEvent
    /\ lastEvent.at = "duplicate"
    /\ ~lastEvent.historical
    /\ LET l == lastEvent.listener
           ev == Event(lastEvent.id)
       IN
       /\ tmuxWrites[l][ev.id] = 0
       /\ ev.room \in DOMAIN roomToSession[l]
       /\ getTmuxTarget(roomToSession[l][ev.room]) # NoTarget
       /\ ~NotMyTarget(myTmuxTarget[l], getTmuxTarget(roomToSession[l][ev.room]))

----------------------------------------------------------------------------
(* Event relay: connections that outlive stop() *)

\* stop() has returned on a relay that was started: the server is closed
RelayStopped == ipc.started /\ ~ipc.server /\ stops >= 1

\* C39 (as stated): once stop() has returned the relay emits no hook event,
\* also for the connections it accepted before stop() that end afterwards.
C39_NoHookAfterStop ==
    [][RelayStopped => emitted' = emitted]_vars

----------------------------------------------------------------------------
(* Room resolutions racing on the store *)

\* the step in which handler h's room resolution saves the store and returns
Resolved(h) ==
    task[h].pc \in {"joined", "create"} /\ task'[h].pc = "send"

\* C35: the resolutions of two coordinators' notifications interleave on the
\* shared store, and each one's save writes the whole record it loaded before
\* its remote call, with only its own entry and currentRoom set: whatever
\* another resolution saved in between is not read again and not kept.
C35_SaveWritesTheLoadedRecord ==
    [][\A h \in Handlers :
          Resolved(h) =>
             LET k == task[h].key
                 loaded == task[h].sess
                 saved == sessionFile'.rec
             IN
             /\ sessionFile'.kind = "json"
             /\ DOMAIN saved.rooms \ {k} = DOMAIN loaded.rooms \ {k}
             /\ \A x \in DOMAIN saved.rooms \ {k} : saved.rooms[x] = loaded.rooms[x]
             /\ saved.accessToken = loaded.accessToken
             /\ saved.currentRoom = task'[h].roomId]_vars

\* The interleaving: a resolution for a session key created a room and saved
\* its entry, and the other resolution's save has since replaced the record:
\* the entry is gone and currentRoom is the other resolution's room.
C35_EntryOverwritten ==
    \E h, g \in Handlers :
        /\ h # g
        /\ task[h].pc = "send" /\ task[h].key # NoKey /\ ~task[h].isExisting
        /\ task[g].pc = "send" /\ ~task[g].isExisting
        /\ sessionFile.kind = "json"
        /\ task[h].key \notin DOMAIN sessionFile.rec.rooms
        /\ sessionFile.rec.currentRoom = task[g].roomId
        /\ task[g].roomId # task[h].roomId

----------------------------------------------------------------------------
(* Two coordinators' notifications and the typing indicator (TypingSpec) *)

\* the session key of the pane each coordinator's hooks run in
PaneKeyOf(h) == IF h = "h1" THEN KeyPane1 ELSE KeyPane2

\* the hook events of the two coordinators that set the typing indicator
TypingTypes == {"stop", "session_start"}

\* sendTextMessage settles; the room the text went to is remembered
Sent(h, ok) ==
    /\ sendSettled(h, ok)
    /\ sentRoom' = [sentRoom EXCEPT ![h] = IF ok THEN task[h].roomId ELSE Null]
    /\ UNCHANGED <<coordinators, lvars, rvars, keyCalls, proc, rendered, fresh,
                   writeFailures>>

\* both coordinators have authenticated; the store holds the credential and
\* no room yet
TypingInit ==
    /\ coordinators = {}
    /\ sessionFile = StoreWithRooms({})
    /\ myTmuxTarget = [l \in Listeners |-> NoTarget]
    /\ ListenerFresh
    /\ MainQuiet
    /\ NotifierQuiet

TypingNext ==
    \/ \E h \in Handlers, type \in TypingTypes : Notify(h, type, PaneKeyOf(h))
    \/ \E h \in Handlers, ok \in BOOLEAN : WhoamiReply(h, ok)
    \/ \E h \in Handlers, ok \in BOOLEAN : LoginReply(h, ok)
    \/ \E h \in Handlers, ok \in BOOLEAN : JoinedReply(h, ok)
    \/ \E h \in Handlers, ok \in BOOLEAN : CreateReply(h, ok)
    \/ \E h \in Handlers, ok \in BOOLEAN : Sent(h, ok)
    \/ \E h \in Handlers, ok \in BOOLEAN : TypingReply(h, ok)

TypingSpec == TypingInit /\ [][TypingNext]_vars

\* C36 (as stated): the typing update that follows a notification goes to
\* the room the notification's text was sent to, whatever other
\* notifications run concurrently.
C36_TypingInRoomOfNotification ==
    \A h \in Handlers :
        (task[h].pc = "typing" /\ task[h].type # Null)
            => task[h].typingRoom = sentRoom[h]

----------------------------------------------------------------------------
(* claude-matrix: main from the relay's start to the spawn, and the hook
   events of the wrapped program (StartupSpec) *)

\* what the hooks of the wrapped program hand to hook-ping: the JSON texts
\* null, 7, "a", { } and [ ], and a text that is not JSON
HookInputs == {<<"null">>, <<"7">>, <<"\"a\"">>, <<"{", "}">>, <<"[", "]">>, <<"x">>}

\* handleHookEvent, line 300: destructuring the payload throws a TypeError
\* for null and for no other JSON value
Destructures(kind) == kind # "null"

\* main's upfront getClient(), lines 454-464: the stored token is accepted,
\* or a login saves a new credential, or getClient throws and main stops
\* the relay and exits
Authenticate(outcome) ==
    /\ proc.pc = "main"
    /\ ipc.started
    /\ CASE outcome = "whoami" ->
              /\ HasCredential(loadSession(sessionFile).value)
              /\ proc' = [proc EXCEPT !.pc = "authenticated"]
              /\ UNCHANGED <<sessionFile, rvars>>
         [] outcome = "login" ->
              /\ sessionFile' = saveSession(NewSession(InitialToken, BotUser))
              /\ proc' = [proc EXCEPT !.pc = "authenticated"]
              /\ UNCHANGED rvars
         [] OTHER ->
              /\ ipcServerStop
              /\ Exit("auth", NoCode, Null, 1)
              /\ UNCHANGED sessionFile
    /\ UNCHANGED <<coordinators, lvars, nvars, keyCalls, rendered, hvars>>

\* listener.start() returns: the hook listener is registered and the program
\* is spawned, lines 474-531
Started(l, spawned) ==
    /\ proc.pc = "authenticated"
    /\ launched(l, spawned)
    /\ UNCHANGED <<nvars, rvars, keyCalls, rendered, hvars>>

\* start() up to a rejection of startClient(), part_000 lines 105-209
listenerStartRejects(l) ==
    /\ ~client[l]
    /\ life[l].start = "none"
    /\ LET s == loadSession(sessionFile).value IN
       /\ HasCredential(s)
       /\ life' = [life EXCEPT ![l] =
                     [@ EXCEPT !.start = "rejected", !.hadCredential = TRUE]]
       /\ roomToSession' = [roomToSession EXCEPT ![l] = getRoomToSessionMap(sessionFile)]
       /\ client' = [client EXCEPT ![l] = TRUE]
       /\ session' = [session EXCEPT ![l] = s]
    /\ UNCHANGED <<sessionFile, coordinators, myTmuxTarget, syncReady, processedEvents,
                   tmuxWrites, paneWrites, since, lastEvent, delivered>>

\* the rejection of `await listener.start()` is main's, and main().catch
\* exits, lines 538-541
StartRejected(l) ==
    /\ proc.pc = "authenticated"
    /\ listenerStartRejects(l)
    /\ Exit("rejected", NoCode, Null, 1)
    /\ UNCHANGED <<nvars, rvars, keyCalls, rendered, hvars>>

\* a hook of the wrapped program runs hook-ping with the relay's socket path
\* (hook-injector's settings, line 446)
HookPing(p, input) ==
    /\ proc.pc = "running"
    /\ proc.child = "running"
    /\ PingStart(p, TRUE, input)

\* the relay's connection handlers run while the coordinator does
HookData(p, n) == proc.pc = "running" /\ Data(p, n)

\* connection.on("end") and, for an emitted payload, the listener of lines
\* 482-484: handleHookEvent returns for a payload it can destructure (a
\* payload without hook_event_name takes the default branch), and its
\* promise rejects with nothing to catch it for null
HookEnd(p, debug) ==
    /\ proc.pc = "running"
    /\ connectionEnd(p, debug)
    /\ proc' = IF Emits(conn[p].data, debug) /\ proc.handler
               THEN IF Destructures(JSONKind(conn[p].data))
                    THEN [proc EXCEPT !.handled = @ + 1]
                    ELSE [proc EXCEPT !.unhandled = @ + 1]
               ELSE proc
    /\ UNCHANGED <<sessionFile, coordinators, lvars, nvars, keyCalls, rendered, hvars>>

\* a store with or without a credential when main starts
StartupInit ==
    Constructed({TheListener}, {AbsentFile, StoreWithRooms({KeyPane1})})

StartupNext ==
    \/ \E bound \in BOOLEAN : IpcStart(bound)
    \/ \E outcome \in {"whoami", "login", "failed"} : Authenticate(outcome)
    \/ \E spawned \in BOOLEAN : Started(TheListener, spawned)
    \/ StartRejected(TheListener)
    \/ \E p \in Pingers, input \in HookInputs : HookPing(p, input)
    \/ \E p \in Pingers : StdinEnd(p)
    \/ \E p \in Pingers : Connect(p)
    \/ \E p \in Pingers : \E n \in 1..Len(ping[p].input) : HookData(p, n)
    \/ \E p \in Pingers, debug \in BOOLEAN : HookEnd(p, debug)
    \/ \E p \in Pingers : Close(p)
    \/ \E code \in ExitCodes : ChildExits(TheListener, code)
    \/ SpawnError(TheListener)

StartupSpec == StartupInit /\ [][StartupNext]_vars

\* C34: whenever the wrapped program runs, the relay has been started, the
\* listener's start() has returned and the hook listener is registered; and
\* the relay emits a hook event only with that listener registered.
C34_HandlerRegisteredBeforeSpawn ==
    [][/\ proc'.child = "running" =>
             /\ ipc'.started
             /\ life'[TheListener].start \in {"true", "false"}
             /\ proc'.handler
       /\ \A p \in Pingers : emitted'[p] > emitted[p] => proc.handler]_vars

\* a hook of the running program was emitted by the relay and handled
C34_HookHandled ==
    /\ proc.pc = "running" /\ proc.child = "running"
    /\ \E p \in Pingers : emitted[p] = 1 /\ JSONKind(ping[p].input) = "object"
    /\ proc.handled = 1

\* C38 (as stated): the handling of every payload that parses as JSON, an
\* object or not, completes without an unhandled promise rejection.
C38_EveryParsedPayloadHandled ==
    proc.unhandled = 0

\* C40 (as stated): when the coordinator exits between the relay's start and
\* the spawn, because the authentication failed or the listener's start()
\* raised, the relay's stop() has been called and its socket file is gone.
C40_RelayStoppedOnEarlyExit ==
    (proc.pc = "exited" /\ proc.why \in {"auth", "rejected"})
        => stops >= 1 /\ ~socketFile

=============================================================================
